---- MODULE Spec2Model ----
EXTENDS Integers, Sequences, FiniteSets, TLC

(***************************************************************************)
(* Model of the task-message broker manager                                *)
(* (src/services/rocketmq_integration.py) and of the start-up of the two   *)
(* servers that use it.                                                    *)
(*                                                                         *)
(* Python values are modelled with their representation: an Enum member is *)
(* a record [enum, value], the JSON wire body carries the bare values.     *)
(***************************************************************************)

\* ------------------------------------------------------------------ bounds
\* Number of messages other producers publish to the priority topics.
MaxMessages == 2
\* Largest max_retries / retry_count carried by a wire body (10 * 2^5 > 300).
MaxRetries == 5
\* embedding cache: image paths in use, the two constructor arguments
\* (max_memory_mb * 1024 * 1024 given in bytes), and calls made on the cache
NumPaths == 4
max_cache_size == 3
max_memory_bytes == 16
MaxCalls == 4
\* threads calling one EmbeddingCache, and the calls they make between them
NumThreads == 2
MaxThreadCalls == 3
\* distributed cache: the sizes of src/server/redis_cache.py scaled from KiB to
\* bytes of the model (chunk size < compression threshold < largest single
\* value, as in the source), the longest value, and the calls made
MAX_VALUE_SIZE == 5
COMPRESSION_THRESHOLD == 3
LOGIT_CHUNK_SIZE == 2
MaxPayload == 4
MaxRedisCalls == 3
MaxFaultyCalls == 2
\* set_sam_logit and get_sam_logit calls followed while they run concurrently
MaxRaceSets == 2
MaxRaceGets == 1

\* click fingerprint: the grid size (20 in the source) and the longest click list
grid_size == 4
MaxClicks == 2

\* message handlers: the SEGMENT messages one worker handles, and the times an
\* image file is modified
MaxHandled == 2
MaxModified == 1


\* retry pool: the retries scheduled, and the time followed, in steps of
\* TickSeconds
MaxScheduled == 11
TickSeconds == 10
MaxTicks == 3


\* key expiry: steps of half a logit TTL followed
MaxExpiryTicks == 3


\* eviction loop: entries held when it starts, and the largest count budget
MaxEvictEntries == 2
MaxCountBudget == 2


\* concurrent consumer callbacks: the threads, and the callbacks each one runs
NumCallbackThreads == 2
MaxCallbacks == 2

\* concurrent handlers: the consumer callback threads handling SEGMENT
\* messages at once, and the handlings they begin
NumSegmentThreads == 2
MaxSegmentHandlings == 2

\* page locks: the callers, the pages, the lock calls made and the steps of
\* time followed
NumLockCallers == 2
NumLockPages == 2
MaxLockCalls == 4
MaxLockTicks == 2

\* ------------------------------------------------------- program constants
max_workers == 10
\* default TTLs of the distributed cache's sets, in seconds
LogitTtl == 1800
EmbeddingTtl == 3600
SessionTtl == 86400
\* default ttl of a page processing lock, in seconds
LockTtl == 300
CacheTtl == 3600
\* self.max_cache_size of the MessageHandlers
handlers_max_cache_size == 5

RetryBaseDelay == 10
RetryDelayCap == 300

\* --------------------------------------------------------------- data model
None == "None"

MessageTypeValues == {"YOLO_DETECT", "SAM_SEGMENT", "BATCH_PROCESS", "PDF_EXTRACT"}
MessageType == [enum : {"MessageType"}, value : MessageTypeValues]
MessageTypeOf(v) == [enum |-> "MessageType", value |-> v]

MessagePriorityValues == 1..4
MessagePriority == [enum : {"MessagePriority"}, value : MessagePriorityValues]
MessagePriorityOf(v) == [enum |-> "MessagePriority", value |-> v]
LOW == MessagePriorityOf(1)
NORMAL == MessagePriorityOf(2)
HIGH == MessagePriorityOf(3)
URGENT == MessagePriorityOf(4)

\* self.topics and self.dlq_topic
topics == [p \in MessagePriority |->
             CASE p = URGENT -> "segtool_urgent"
               [] p = HIGH   -> "segtool_high"
               [] p = NORMAL -> "segtool_normal"
               [] p = LOW    -> "segtool_low"]
dlq_topic == "segtool_dlq"

\* Types the server registers a handler and starts a consumer for (the SAM
\* server: SAM_SEGMENT).
ServedTypes == {"SAM_SEGMENT"}
\* Values of message_type found in bodies on the topics; the last one is no
\* member of MessageType.
WireTypeValues == {"SAM_SEGMENT", "YOLO_DETECT", "NOT_A_TYPE"}
\* Priorities the send helpers default to (NORMAL, HIGH).
WirePriorityValues == {2, 3}
MessageIds == 1..MaxMessages

\* The JSON object a producer puts in a message body.
WireBody(id, ty, pr, mx, rc) ==
    [message_id |-> id, message_type |-> ty, user_id |-> "user", project_id |-> "project",
     payload |-> "payload", priority |-> pr, max_retries |-> mx, retry_count |-> rc,
     created_at |-> 1]
NoBody == WireBody(0, "NOT_A_TYPE", 0, 0, 0)

\* Result of the broker for one send_sync call: accepted with status 0,
\* returned with a non-zero status, or the call raised.
BrokerResults == {"ok", "status_nonzero", "raises"}

Min(a, b) == IF a < b THEN a ELSE b
RECURSIVE Pow2(_)
Pow2(n) == IF n <= 0 THEN 1 ELSE 2 * Pow2(n - 1)
RemoveAt(s, i) == SubSeq(s, 1, i - 1) \o SubSeq(s, i + 1, Len(s))

VARIABLES
    server,            \* start-up of the server process: "starting", "serving", "aborted"
    startup_error,     \* what made the start-up raise: [kind, type]
    manager,           \* the module global rocketmq_manager
    producer,          \* self.producer
    consumers,         \* keys of self.consumers
    message_handlers,  \* keys of self.message_handlers
    stats,             \* self.stats counters
    executor,          \* self.executor: the submitted delayed_send tasks
    broker,            \* messages queued on the four priority topics
    dlq,               \* messages on the dead-letter topic
    published,         \* number of messages other producers have published
    lastSend,          \* the last send_message call and what it did
    lastHandle,        \* the last _handle_message call and what it did
    track              \* history of the message most recently published by a producer

brokerVars == <<server, startup_error, manager, producer, consumers, message_handlers,
                stats, executor, broker, dlq, published, lastSend, lastHandle, track>>

\* The process-local embedding cache (src/server/embedding_cache.py).
VARIABLES
    cache,                 \* self.cache: the OrderedDict, as the sequence of its entries
    current_memory_bytes,  \* self.current_memory_bytes
    cache_stats,           \* self.stats of the EmbeddingCache
    now,                   \* time.time(), counted in calls
    lastCall,              \* the last call on the cache and what it did
    lock,                  \* self.lock: the thread that holds it, or None
    threads,               \* each thread's call in progress and its position in it
    serial                 \* the calls made so far, executed one after the other

embeddingVars == <<cache, current_memory_bytes, cache_stats, now, lastCall>>
threadVars == <<lock, threads, serial>>

\* The distributed cache (src/server/redis_cache.py) and its Redis backend.
VARIABLES
    redis,        \* the backend: for each key its value and TTL
    backend,      \* "reliable", or "unreliable" when backend calls may raise
    redis_calls,  \* number of calls made on the RedisCache
    lastOp,       \* the last call on the RedisCache, or loss of a key, and what it did
    logit         \* the last set_sam_logit, and whether its keys are all still there

redisVars == <<redis, backend, redis_calls, lastOp, logit>>

\* A set_sam_logit and a get_sam_logit running on the same key at the same
\* time, one backend call at a time.
VARIABLES
    writer,   \* the set_sam_logit in progress: position, value, framed bytes, next chunk
    reader,   \* the get_sam_logit in progress: position, chunks read, and what it returned
    written   \* the values passed to the set_sam_logit calls made so far

raceVars == <<writer, reader, written>>

\* The click fingerprint (src/server/utils/click_signature.py).
VARIABLES
    lastSignature  \* the last two click lists fingerprinted, and their signatures

signatureVars == <<lastSignature>>

\* The message handlers of one worker (src/services/rocketmq_message_handlers.py).
VARIABLES
    embedding_cache,     \* self.embedding_cache, as the set of its entries
    processing_stats,    \* self.processing_stats counters
    current_image_path,  \* self.current_image_path
    features,            \* self.sam_predictor.features: the image hash they were computed for
    files,               \* for each image file its modification count, NoFile when it is gone
    clock,               \* time.time(), counted in handled messages
    handled              \* the handle_sam_segment_message calls made, the last two kept

handlerVars == <<embedding_cache, processing_stats, current_image_path, features, files,
                 clock, handled>>

\* The executor of the RocketMQManager with its retries and the time
\* (src/services/rocketmq_integration.py).
VARIABLES
    pool,        \* the delayed_send tasks submitted and not finished, oldest first
    pool_now,    \* time.time(), in seconds since the manager was built
    scheduled,   \* number of retries scheduled so far
    finished,    \* number of delayed_send tasks that ended
    lastWake     \* the last delayed_send whose sleep ended

poolVars == <<pool, pool_now, scheduled, finished, lastWake>>

\* The expiry clock of the Redis backend.
VARIABLES
    redis_now,   \* the backend's time, in seconds
    deadline     \* for each key the time at which it expires, NoDeadline without one

expiryVars == <<redis_now, deadline>>

\* One run of the eviction loop of an EmbeddingCache built with any budgets.
VARIABLES
    evict   \* the cache object, the new entry's size and the position in the loop

evictVars == <<evict>>

\* Consumer callbacks running _handle_message concurrently on one manager.
VARIABLES
    callbacks,     \* for each callback thread its position in self.stats[...] += 1
    handler_ends   \* how many handlers returned and raised so far

callbackVars == <<callbacks, handler_ends>>

\* RocketMQManager.shutdown.
VARIABLES
    shutting_down   \* how far shutdown() has come

shutdownVars == <<shutting_down>>

\* SEGMENT handlers running at once on the consumer callback threads of one
\* worker process (src/services/rocketmq_message_handlers.py).
VARIABLES
    segment_threads,     \* per thread: where its handle_sam_segment_message is, and its locals
    shared_cache,        \* self.embedding_cache, shared by the threads
    predictor_features,  \* self.sam_predictor.features: the image they were computed from
    shared_embedding,    \* self.current_embedding, shared by the threads
    segment_clock,       \* time.time(), counted in time stamps taken
    segment_begun,       \* handle_sam_segment_message calls begun
    last_evicted         \* the last entry _evict_oldest_embedding deleted

workerVars == <<segment_threads, shared_cache, predictor_features, shared_embedding,
                segment_clock, segment_begun, last_evicted>>

\* The page processing locks of the detection server (src/yolo-server/redis_cache.py).
VARIABLES
    page_locks,      \* for each page the seconds its lock key has left to live, 0 when the key is absent
    processing,      \* for each caller the pages it locked and has not released yet
    lock_calls,      \* lock calls made
    lock_now,        \* time followed, in seconds
    lastLock         \* the last set_page_processing_lock call and what it returned

lockVars == <<page_locks, processing, lock_calls, lock_now, lastLock>>

vars == <<brokerVars, embeddingVars, threadVars, redisVars, raceVars, signatureVars, handlerVars, poolVars, expiryVars, evictVars, callbackVars, shutdownVars, workerVars, lockVars>>

\* ------------------------------------------------------------ serialization
\* str(x) of a number
str(x) == <<"str", x>>

\* SegmentMessage(**message_data) after the two Enum look-ups of
\* _handle_message: MessageType(v) and MessagePriority(v) raise ValueError on
\* a value that is no member.
ParseBody(body) ==
    IF body.message_type \notin MessageTypeValues \/ body.priority \notin MessagePriorityValues
    THEN [ok |-> FALSE, error |-> "ValueError"]
    ELSE [ok |-> TRUE,
          message |-> [body EXCEPT !.message_type = MessageTypeOf(@),
                                   !.priority = MessagePriorityOf(@)]]

\* dataclasses.asdict: fields that are no dataclass, list or dict are copied
\* as they are, so the Enum members stay Enum members.
asdict(message) == message

\* json.dumps with the default encoder: an Enum member (MessageType and
\* MessagePriority derive from Enum only) is not JSON serializable.
json_dumps(d) ==
    IF d.message_type \in MessageType \/ d.priority \in MessagePriority
    THEN [ok |-> FALSE, error |-> "TypeError"]
    ELSE [ok |-> TRUE, body |-> d]

\* A rocketmq Message object.
Message(topic, keys, tags, body, properties) ==
    [topic |-> topic, keys |-> keys, tags |-> tags, body |-> body, properties |-> properties]

\* --------------------------------------------------------------- operations
\* send_message whose except clause logs and does not raise again
send_message_swallowed(message, broker_result) ==
    [topic |-> topics[message.priority], raised |-> FALSE, returned |-> None,
     messages_sent |-> 0, published |-> <<>>, send_sync |-> FALSE]

\* RocketMQManager.send_message: what one call does, given what the broker
\* answers to send_sync. published: the messages the broker stored;
\* send_sync: whether the call got as far as producer.send_sync.
send_message(message, broker_result) ==
    LET topic == topics[message.priority]
        encoded == json_dumps(asdict(message))
        raise == [topic |-> topic, raised |-> TRUE, returned |-> None,
                  messages_sent |-> 0, published |-> <<>>, send_sync |-> encoded.ok]
    IN  IF ~encoded.ok THEN raise
        ELSE IF broker_result = "ok"
        THEN [topic |-> topic, raised |-> FALSE, returned |-> message.message_id,
              messages_sent |-> 1, send_sync |-> TRUE,
              published |-> <<Message(topic, message.message_id, message.message_type.value,
                                      encoded.body,
                                      [USER_ID |-> message.user_id,
                                       PROJECT_ID |-> message.project_id,
                                       CREATED_AT |-> str(message.created_at),
                                       RETRY_COUNT |-> str(message.retry_count)])>>]
        ELSE raise

\* the delay computed from the retry_count before its increment
RetryDelay_from_ten(retry_count) ==
    Min(RetryDelayCap, RetryBaseDelay * Pow2(retry_count - 1))

\* the delay without its cap
RetryDelay_uncapped(retry_count) == RetryBaseDelay * Pow2(retry_count)

\* delay of _retry_message
RetryDelay(retry_count) == Min(RetryDelayCap, RetryBaseDelay * Pow2(retry_count))

\* RocketMQManager._retry_message: the task submitted to the executor.
_retry_message(message) ==
    <<[message |-> message, delay |-> RetryDelay(message.retry_count), state |-> "queued"]>>

\* the dead-letter Message without set_keys
DlqMessage_nokeys(original_message, error_reason) ==
    Message(dlq_topic, 0, "FAILED", original_message.body,
            [ERROR_REASON |-> error_reason, FAILED_AT |-> str("time.time()")])

\* RocketMQManager._send_to_dlq: the Message handed to send_sync.
DlqMessage(original_message, error_reason) ==
    Message(dlq_topic, original_message.keys, "FAILED", original_message.body,
            [ERROR_REASON |-> error_reason, FAILED_AT |-> str("time.time()")])

\* RocketMQManager._send_to_dlq: the messages the broker stored. The status
\* send_sync returns is not looked at and an exception is logged.
_send_to_dlq(original_message, error_reason, broker_result) ==
    IF broker_result = "ok" THEN <<DlqMessage(original_message, error_reason)>> ELSE <<>>

\* the retry test with <= for <
CanRetry_lte(message) == message.retry_count <= message.max_retries

\* the retry test of _handle_message
CanRetry(message) == message.retry_count < message.max_retries

\* RECONSUME_LATER also after a retry was scheduled
ConsumeResultOf_redeliver(path) ==
    IF path \in {"parse_error", "retry"} THEN "RECONSUME_LATER" ELSE "CONSUME_SUCCESS"

\* The ConsumeResult _handle_message returns on each of its paths.
ConsumeResultOf(path) ==
    IF path = "parse_error" THEN "RECONSUME_LATER" ELSE "CONSUME_SUCCESS"

\* a handler that raised is not counted
handler_counters_returns_only(handler) ==
    [messages_consumed |-> IF handler = "returned" THEN 1 ELSE 0, messages_failed |-> 0]

\* _handle_message: self.stats['messages_consumed'] += 1 after the handler
\* returned, self.stats['messages_failed'] += 1 at the end of the except
\* block of a handler that raised
handler_counters(handler) ==
    [messages_consumed |-> IF handler = "returned" THEN 1 ELSE 0,
     messages_failed |-> IF handler = "raised" THEN 1 ELSE 0]

\* RocketMQManager._handle_message: what one call does, given the outcome of
\* the handler (if it is called) and the broker's answer to a dead-letter
\* send (if one is made).
_handle_message(mq_message, expected_type, handler_outcome, broker_result) ==
    LET parsed == ParseBody(mq_message.body)
        nothing == [path |-> "parse_error", handler |-> "not_called",
                    messages_consumed |-> 0, messages_failed |-> 0,
                    retry |-> <<>>, dlq_sends |-> <<>>, dlq_stored |-> <<>>]
        path == IF ~parsed.ok THEN "parse_error"
                ELSE IF parsed.message.message_type # expected_type THEN "type_mismatch"
                ELSE IF parsed.message.message_type.value \notin message_handlers
                     THEN "no_handler"
                ELSE IF handler_outcome = "returns" THEN "handled"
                ELSE IF CanRetry(parsed.message) THEN "retry"
                ELSE "dead_letter"
        effect ==
            CASE path = "parse_error" -> nothing
              [] path = "type_mismatch" -> [nothing EXCEPT !.path = path]
              [] path = "no_handler" ->
                    [nothing EXCEPT !.path = path,
                        !.dlq_sends = <<DlqMessage(mq_message, "No handler registered")>>,
                        !.dlq_stored = _send_to_dlq(mq_message, "No handler registered",
                                                    broker_result)]
              [] path = "handled" ->
                    [nothing EXCEPT !.path = path, !.handler = "returned",
                                    !.messages_consumed = 1]
              [] path = "retry" ->
                    [nothing EXCEPT !.path = path, !.handler = "raised",
                        !.messages_failed = 1,
                        !.retry = _retry_message(
                            [parsed.message EXCEPT !.retry_count = @ + 1])]
              [] path = "dead_letter" ->
                    [nothing EXCEPT !.path = path, !.handler = "raised",
                        !.messages_failed = 1,
                        !.dlq_sends = <<DlqMessage(mq_message, "Message processing failed")>>,
                        !.dlq_stored = _send_to_dlq(mq_message, "Message processing failed",
                                                    broker_result)]
        counted == handler_counters(effect.handler)
    IN  [result |-> ConsumeResultOf(path)]
          @@ [effect EXCEPT !.messages_consumed = counted.messages_consumed,
                            !.messages_failed = counted.messages_failed]

\* RocketMQManager.__init__ with _init_producer, and init_rocketmq_manager:
\* the global is assigned only when the constructor returns.
init_rocketmq_manager(producer_starts) ==
    IF producer_starts
    THEN [raised |-> FALSE, manager |-> "RocketMQManager", producer |-> "started"]
    ELSE [raised |-> TRUE, manager |-> manager, producer |-> producer]

\* get_rocketmq_manager
get_rocketmq_manager ==
    IF manager = None THEN "RuntimeError" ELSE manager

\* start_consumer recording the consumer before consumer.start()
start_consumer_recorded(message_type, consumer_starts) ==
    [raised |-> ~consumer_starts, consumers |-> consumers \cup {message_type}]

\* RocketMQManager.start_consumer: self.consumers after the call.
start_consumer(message_type, consumer_starts) ==
    IF consumer_starts
    THEN [raised |-> FALSE, consumers |-> consumers \cup {message_type}]
    ELSE [raised |-> TRUE, consumers |-> consumers]

\* ------------------------------------------------------------------ history
\* The wire values of a SegmentMessage (its Enum members replaced by their values).
WireOf(message) ==
    [message EXCEPT !.message_type = @.value, !.priority = @.value]

NoMessage == ParseBody(WireBody(0, "SAM_SEGMENT", 2, 0, 0)).message
NoSend == [called |-> FALSE, by |-> None, message |-> NoMessage, broker_result |-> None,
           topic |-> None, raised |-> FALSE, returned |-> None, messages_sent |-> 0,
           published |-> <<>>, send_sync |-> FALSE]
NoHandle == [called |-> FALSE, expected_type |-> None, handler_outcome |-> None,
             broker_result |-> None,
             mq_message |-> Message(None, 0, None, NoBody, <<>>),
             result |-> None, path |-> None, handler |-> "not_called",
             messages_consumed |-> 0, messages_failed |-> 0,
             retry |-> <<>>, dlq_sends |-> <<>>, dlq_stored |-> <<>>]
NewTrack(origin, body) ==
    [origin |-> origin, original |-> body, handler_calls |-> 0, handler_returns |-> 0,
     retries_scheduled |-> 0, republished |-> 0, dlq_sends |-> 0, dlq_published |-> 0,
     broker_failures |-> 0, acknowledged |-> 0]

InBroker(id) == \E i \in DOMAIN broker : broker[i].keys = id
InExecutor(id) == \E i \in DOMAIN executor : executor[i].message.message_id = id
InDlq(id) == \E i \in DOMAIN dlq : dlq[i].keys = id
\* No message is queued on a priority topic and no retry is pending.
Quiescent == broker = <<>> /\ executor = <<>>

\* ============================================================================
\* The process-local embedding cache (src/server/embedding_cache.py)
\* ============================================================================
ImagePaths == 1..NumPaths

\* A tensor is modelled by its element count; the largest one does not fit
\* the memory budget on its own.
Numels == {1, 2, max_memory_bytes \div 4 + 1}
Embeddings == [numel : Numels]
\* Python's None where an embedding is expected
NoEmbedding == [none |-> TRUE]

IndexOf(seq, image_path) ==
    IF \E i \in DOMAIN seq : seq[i].image_path = image_path
    THEN CHOOSE i \in DOMAIN seq : seq[i].image_path = image_path
    ELSE 0

Contains(seq, image_path) == IndexOf(seq, image_path) # 0

\* EmbeddingCache._estimate_embedding_size: float32, four bytes per element
_estimate_embedding_size(embedding) ==
    IF embedding = NoEmbedding THEN 0 ELSE embedding.numel * 4

\* The state of an EmbeddingCache object, as the methods below take and
\* return it; evicted lists, for each entry popped, the entry and the
\* entries that were present when it was chosen.
EmbeddingCache(c, bytes, st) ==
    [cache |-> c, current_memory_bytes |-> bytes, stats |-> st, evicted |-> <<>>,
     returned |-> NoEmbedding]

NewEmbeddingCache ==
    EmbeddingCache(<<>>, 0, [hits |-> 0, misses |-> 0, evictions |-> 0, total_requests |-> 0])

\* _evict_if_needed with the capacity test off by one (> for >=)
RECURSIVE _evict_if_needed_gt(_, _)
_evict_if_needed_gt(self, new_embedding_size) ==
    IF Len(self.cache) > max_cache_size
         \/ self.current_memory_bytes + new_embedding_size > max_memory_bytes
    THEN IF self.cache = <<>>
         THEN self
         ELSE LET oldest_entry == Head(self.cache)
                  old_size == _estimate_embedding_size(oldest_entry.embedding)
              IN _evict_if_needed_gt(
                     [self EXCEPT
                        !.cache = Tail(self.cache),
                        !.current_memory_bytes = @ - old_size,
                        !.stats.evictions = @ + 1,
                        !.evicted = Append(@, [victim |-> oldest_entry,
                                               present |-> self.cache])],
                     new_embedding_size)
    ELSE self

\* EmbeddingCache._evict_if_needed: pops the first key of the OrderedDict
\* while the cache is full or the new embedding does not fit.
RECURSIVE _evict_if_needed(_, _)
_evict_if_needed(self, new_embedding_size) ==
    IF Len(self.cache) >= max_cache_size
         \/ self.current_memory_bytes + new_embedding_size > max_memory_bytes
    THEN IF self.cache = <<>>
         THEN self
         ELSE LET oldest_entry == Head(self.cache)
                  old_size == _estimate_embedding_size(oldest_entry.embedding)
              IN _evict_if_needed(
                     [self EXCEPT
                        !.cache = Tail(self.cache),
                        !.current_memory_bytes = @ - old_size,
                        !.stats.evictions = @ + 1,
                        !.evicted = Append(@, [victim |-> oldest_entry,
                                               present |-> self.cache])],
                     new_embedding_size)
    ELSE self

\* self.cache[image_path] = cache_entry: an OrderedDict keeps the position of
\* a key it already holds and appends a new one.
SetItem(c, cache_entry) ==
    IF Contains(c, cache_entry.image_path)
    THEN [c EXCEPT ![IndexOf(c, cache_entry.image_path)] = cache_entry]
    ELSE Append(c, cache_entry)

\* EmbeddingCache.put
put(self, image_path, embedding, t) ==
    LET embedding_size == _estimate_embedding_size(embedding)
        s == _evict_if_needed(self, embedding_size)
        cache_entry == [image_path |-> image_path, embedding |-> embedding,
                        size |-> embedding_size, created_at |-> t,
                        last_accessed |-> t, access_count |-> 0]
    IN [s EXCEPT !.cache = SetItem(s.cache, cache_entry),
                 !.current_memory_bytes = @ + embedding_size]

\* EmbeddingCache.get: a hit moves the entry to the end of the OrderedDict.
get(self, image_path, t) ==
    LET i == IndexOf(self.cache, image_path) IN
      IF i # 0
      THEN LET entry == [self.cache[i] EXCEPT !.last_accessed = t,
                                              !.access_count = @ + 1]
           IN [self EXCEPT !.cache = Append(RemoveAt(self.cache, i), entry),
                           !.stats.total_requests = @ + 1,
                           !.stats.hits = @ + 1,
                           !.returned = entry.embedding]
      ELSE [self EXCEPT !.stats.total_requests = @ + 1,
                        !.stats.misses = @ + 1,
                        !.returned = NoEmbedding]

\* EmbeddingCache.remove
remove(self, image_path) ==
    LET i == IndexOf(self.cache, image_path) IN
      IF i # 0
      THEN [self EXCEPT !.cache = RemoveAt(self.cache, i),
                        !.current_memory_bytes = @ - self.cache[i].size,
                        !.returned = [removed |-> TRUE]]
      ELSE [self EXCEPT !.returned = [removed |-> FALSE]]

\* EmbeddingCache.clear
clear(self) ==
    [self EXCEPT !.cache = <<>>, !.current_memory_bytes = 0]

NoCall == [op |-> None, image_path |-> 0, embedding |-> NoEmbedding, before |-> <<>>,
           evicted |-> <<>>, returned |-> NoEmbedding, raised |-> FALSE]

\* EmbeddingCache.__init__
\* while len(self.cache) >= self.max_cache_size or
\*       self.current_memory_bytes + new_embedding_size > self.max_memory_bytes
LoopTest(self) ==
    \/ Len(self.cache) >= self.max_cache_size
    \/ self.current_memory_bytes + self.new_embedding_size > self.max_memory_bytes

\* the loop body without its test for an empty cache
LoopBody_nobreak(self) ==
    IF self.cache = <<>> THEN self
    ELSE [self EXCEPT !.cache = Tail(self.cache),
                      !.current_memory_bytes =
                          @ - _estimate_embedding_size(Head(self.cache).embedding),
                      !.evictions = @ + 1]

\* One pass through the body of the while loop of _evict_if_needed: break on
\* an empty cache, else pop the first key and give its bytes back.
LoopBody(self) ==
    IF self.cache = <<>> THEN [self EXCEPT !.pc = "done", !.broke = TRUE]
    ELSE [self EXCEPT !.cache = Tail(self.cache),
                      !.current_memory_bytes =
                          @ - _estimate_embedding_size(Head(self.cache).embedding),
                      !.evictions = @ + 1]

\* Entries a cache can hold when put calls _evict_if_needed
EvictEntries == {[embedding |-> e, size |-> _estimate_embedding_size(e)] : e \in Embeddings}
EvictCaches == UNION {[1..n -> EvictEntries] : n \in 0..MaxEvictEntries}

NoEvict == [pc |-> "idle", cache |-> <<>>, current_memory_bytes |-> 0,
            new_embedding_size |-> 0, max_cache_size |-> 0, max_memory_bytes |-> 0,
            initial_len |-> 0, evictions |-> 0, broke |-> FALSE]

EvictInit == evict = NoEvict

EmbeddingInit ==
    /\ cache = NewEmbeddingCache.cache
    /\ current_memory_bytes = NewEmbeddingCache.current_memory_bytes
    /\ cache_stats = NewEmbeddingCache.stats
    /\ now = 0
    /\ lastCall = NoCall

Threads == 1..NumThreads

\* A thread that is in no call on the cache
Idle == [pc |-> "idle", op |-> None, image_path |-> 0, embedding |-> NoEmbedding, t |-> 0]

ThreadInit ==
    /\ lock = 0
    /\ threads = [th \in Threads |-> Idle]
    /\ serial = NewEmbeddingCache

\* ============================================================================
\* The distributed cache (src/server/redis_cache.py)
\* ============================================================================
\* Bytes are numbers. A cached value is a string of the bytes 0 and 1; the
\* ones used are 0..0 1..1 of every length up to MaxPayload.
Bits(a, b) == [i \in 1..(a + b) |-> IF i <= a THEN 0 ELSE 1]
Values ==
    {Bits(p[1], p[2]) : p \in {q \in (0..MaxPayload) \X (0..MaxPayload) :
                                 q[1] + q[2] \in 1..MaxPayload}}

\* pickle: the PROTO opcode, the object, the STOP opcode
PROTO == 128
STOP == 46
pickle_dumps(obj) == <<PROTO>> \o obj \o <<STOP>>

\* pickle.loads raises on anything that is not a whole pickle
pickle_loads(data) ==
    IF /\ Len(data) >= 2
       /\ data[1] = PROTO
       /\ data[Len(data)] = STOP
       /\ \A i \in 2..(Len(data) - 1) : data[i] \in {0, 1}
    THEN [raised |-> FALSE, value |-> SubSeq(data, 2, Len(data) - 1)]
    ELSE [raised |-> TRUE, value |-> <<>>]

\* gzip is modelled by a run-length code of the zero bytes: a run of k zeros
\* becomes the two bytes ZERO_RUN, k; any other byte stands for itself.
ZERO_RUN == 31

RECURSIVE LeadingZeros(_)
LeadingZeros(data) ==
    IF data # <<>> /\ Head(data) = 0 THEN 1 + LeadingZeros(Tail(data)) ELSE 0

\* RedisCache._compress_data
RECURSIVE _compress_data(_)
_compress_data(data) ==
    IF data = <<>> THEN <<>>
    ELSE IF Head(data) = 0
         THEN LET k == LeadingZeros(data) IN
                <<ZERO_RUN, k>> \o _compress_data(SubSeq(data, k + 1, Len(data)))
         ELSE <<Head(data)>> \o _compress_data(Tail(data))

\* RedisCache._decompress_data: raises on a run cut before its length
RECURSIVE _decompress_data(_)
_decompress_data(compressed_data) ==
    IF compressed_data = <<>> THEN [raised |-> FALSE, data |-> <<>>]
    ELSE IF Head(compressed_data) = ZERO_RUN
         THEN IF Len(compressed_data) < 2
              THEN [raised |-> TRUE, data |-> <<>>]
              ELSE LET rest == _decompress_data(SubSeq(compressed_data, 3,
                                                       Len(compressed_data)))
                   IN [raised |-> rest.raised,
                       data |-> [i \in 1..compressed_data[2] |-> 0] \o rest.data]
         ELSE LET rest == _decompress_data(Tail(compressed_data)) IN
                [raised |-> rest.raised, data |-> <<Head(compressed_data)>> \o rest.data]

\* The prefixes b'GZIP:' and b'PICKLE:', one byte each in the model
GZIP_PREFIX == <<71>>
PICKLE_PREFIX == <<80>>

startswith(data, prefix) ==
    Len(data) >= Len(prefix) /\ SubSeq(data, 1, Len(prefix)) = prefix

\* RedisCache._serialize_with_compression
_serialize_with_compression(obj) ==
    LET serialized == pickle_dumps(obj) IN
      IF Len(serialized) > COMPRESSION_THRESHOLD
      THEN LET compressed == _compress_data(serialized) IN
             IF Len(compressed) < Len(serialized)
             THEN GZIP_PREFIX \o compressed
             ELSE PICKLE_PREFIX \o serialized
      ELSE PICKLE_PREFIX \o serialized

\* RedisCache._deserialize_with_compression
_deserialize_with_compression(data) ==
    IF startswith(data, GZIP_PREFIX)
    THEN LET d == _decompress_data(SubSeq(data, Len(GZIP_PREFIX) + 1, Len(data))) IN
           IF d.raised THEN [raised |-> TRUE, value |-> <<>>] ELSE pickle_loads(d.data)
    ELSE IF startswith(data, PICKLE_PREFIX)
         THEN pickle_loads(SubSeq(data, Len(PICKLE_PREFIX) + 1, Len(data)))
         ELSE pickle_loads(data)

\* ------------------------------------------------------------------- backend
LogitBase == "sam:logit:hash:signature"
EmbeddingBase == "sam:embedding:hash"
SessionBase == "user:session:user"
CacheBase == "key"

\* the key itself, key:info and key:chunk:i
PlainKey(base) == <<base, "", 0>>
InfoKey(base) == <<base, "info", 0>>
ChunkKey(base, i) == <<base, "chunk", i>>

\* chunks of the longest framed value
MaxChunks == (MaxPayload + 3 + LOGIT_CHUNK_SIZE - 1) \div LOGIT_CHUNK_SIZE

InfoKeys == {InfoKey(LogitBase)}
ChunkKeys == {ChunkKey(LogitBase, i) : i \in 0..(MaxChunks - 1)}
LogitKeys == {PlainKey(LogitBase)} \cup InfoKeys \cup ChunkKeys
RedisKeys ==
    {PlainKey(b) : b \in {LogitBase, EmbeddingBase, SessionBase, CacheBase}}
      \cup InfoKeys \cup ChunkKeys

\* A key the backend does not hold reads as None; like b'' it is falsy.
Absent == [value |-> <<>>, ttl |-> 0]
EmptyRedis == [k \in RedisKeys |-> Absent]

\* redis_client.setex(key, ttl, value)
setex(store, key, ttl, value) == [store EXCEPT ![key] = [value |-> value, ttl |-> ttl]]

\* The backend calls of one method are numbered from 1; faults is the set of
\* those that raise: none, one of them, or all from one on. n is the largest
\* number of backend calls the method makes.
MaxBackendCalls == MaxChunks + 2
FaultChoices(b, n) ==
    IF b = "reliable" THEN {{}}
    ELSE {{}} \cup {{k} : k \in 1..n} \cup {k..n : k \in 1..n}

\* Image files: _get_image_hash stats the file and raises when it is gone.
ImageFiles == {"page.png", "gone.png"}
_get_image_hash(image_path) ==
    IF image_path = "gone.png" THEN [raised |-> TRUE, hash |-> None]
    ELSE [raised |-> FALSE, hash |-> "hash"]

\* json.dumps(chunk_info).encode() and json.loads(info_data.decode())
chunk_info_dumps(num_chunks, total_size) == <<123, num_chunks, total_size, 125>>
chunk_info_loads(info_data) ==
    IF Len(info_data) = 4 /\ info_data[1] = 123 /\ info_data[4] = 125
    THEN [raised |-> FALSE, num_chunks |-> info_data[2], total_size |-> info_data[3]]
    ELSE [raised |-> TRUE, num_chunks |-> 0, total_size |-> 0]

\* What a method of the RedisCache did: the backend after it, what it
\* returned (hit, value), whether an exception left it, whether a backend
\* call raised, the <<key, size>> it wrote and the keys it deleted.
Outcome(store, hit, value, failed, writes) ==
    [store |-> store, hit |-> hit, value |-> value, raised |-> FALSE, failed |-> failed,
     writes |-> writes, deleted |-> {}]

\* ------------------------------------------------------------------ chunking
\* data[start:end] of chunk i
Chunk(data, i) ==
    SubSeq(data, i * LOGIT_CHUNK_SIZE + 1, Min(i * LOGIT_CHUNK_SIZE + LOGIT_CHUNK_SIZE,
                                               Len(data)))

\* RedisCache._split_large_data: backend call n0 + 1 writes the manifest, call
\* n0 + 2 + i writes chunk i; the first call that raises ends the method,
\* which returns False, with the earlier writes done.
_split_large_data(store, base, data, ttl, faults, n0) ==
    LET data_size == Len(data) IN
      IF data_size <= MAX_VALUE_SIZE
      THEN [store |-> store, success |-> FALSE, calls |-> n0, failed |-> FALSE,
            writes |-> {}]
      ELSE
        LET num_chunks == (data_size + LOGIT_CHUNK_SIZE - 1) \div LOGIT_CHUNK_SIZE
            raising == {j \in 0..num_chunks : (n0 + 1 + j) \in faults}
            first == IF raising = {} THEN num_chunks + 1
                     ELSE CHOOSE j \in raising : \A x \in raising : j <= x
            info == chunk_info_dumps(num_chunks, data_size)
            wrote == {<<InfoKey(base), Len(info)>> : j \in {0} \cap 0..(first - 1)}
                       \cup {<<ChunkKey(base, j - 1), Len(Chunk(data, j - 1))>> :
                               j \in 1..Min(first - 1, num_chunks)}
        IN [store |-> [k \in RedisKeys |->
                         IF k = InfoKey(base) /\ first > 0
                         THEN [value |-> info, ttl |-> ttl]
                         ELSE IF k \in {ChunkKey(base, j - 1) :
                                          j \in 1..Min(first - 1, num_chunks)}
                              THEN [value |-> Chunk(data, k[3]), ttl |-> ttl]
                              ELSE store[k]],
            success |-> first > num_chunks,
            calls |-> n0 + Min(first + 1, num_chunks + 1),
            failed |-> first <= num_chunks,
            writes |-> wrote]

RECURSIVE Join(_, _, _)
Join(store, base, n) ==
    IF n = 0 THEN <<>> ELSE Join(store, base, n - 1) \o store[ChunkKey(base, n - 1)].value

\* RedisCache._get_large_data: call n0 + 1 reads the manifest, call n0 + 2 + i
\* reads chunk i; None (here <<>>) when the manifest or a chunk is missing,
\* and when anything raises.
_get_large_data(store, base, faults, n0) ==
    LET info_data == store[InfoKey(base)].value
        loaded == chunk_info_loads(info_data)
    IN
      IF (n0 + 1) \in faults
      THEN [data |-> <<>>, calls |-> n0 + 1, failed |-> TRUE]
      ELSE IF info_data = <<>> \/ loaded.raised
      THEN [data |-> <<>>, calls |-> n0 + 1, failed |-> FALSE]
      ELSE
        LET num_chunks == loaded.num_chunks
            bad == {i \in 0..(num_chunks - 1) :
                      (n0 + 2 + i) \in faults \/ store[ChunkKey(base, i)].value = <<>>}
            stop == CHOOSE i \in bad : \A x \in bad : i <= x
        IN IF bad # {}
           THEN [data |-> <<>>, calls |-> n0 + 2 + stop,
                 failed |-> (n0 + 2 + stop) \in faults]
           ELSE [data |-> Join(store, base, num_chunks), calls |-> n0 + 1 + num_chunks,
                 failed |-> FALSE]

\* ------------------------------------------------------------------- methods
Miss(store, failed) == Outcome(store, FALSE, <<>>, failed, {})

\* What a get returns for the bytes it read
Decoded(store, cached_data, decoded, failed) ==
    IF cached_data = <<>> \/ decoded.raised
    THEN Miss(store, failed)
    ELSE Outcome(store, TRUE, decoded.value, failed, {})

\* RedisCache.get_sam_embedding
get_sam_embedding(store, image_path, faults) ==
    IF _get_image_hash(image_path).raised THEN Miss(store, FALSE)
    ELSE IF 1 \in faults THEN Miss(store, TRUE)
    ELSE LET cached_data == store[PlainKey(EmbeddingBase)].value IN
           Decoded(store, cached_data, _deserialize_with_compression(cached_data), FALSE)

\* RedisCache.set_sam_embedding
set_sam_embedding(store, image_path, embedding_data, ttl, faults) ==
    IF _get_image_hash(image_path).raised THEN Miss(store, FALSE)
    ELSE IF 1 \in faults THEN Miss(store, TRUE)
    ELSE LET serialized_data == _serialize_with_compression(embedding_data) IN
           Outcome(setex(store, PlainKey(EmbeddingBase), ttl, serialized_data), FALSE, <<>>,
                   FALSE, {<<PlainKey(EmbeddingBase), Len(serialized_data)>>})

\* RedisCache.get_sam_logit: the chunked form first, then the key itself
get_sam_logit(store, image_path, faults) ==
    IF _get_image_hash(image_path).raised THEN Miss(store, FALSE)
    ELSE
      LET large == _get_large_data(store, LogitBase, faults, 0) IN
        IF large.data # <<>>
        THEN Decoded(store, large.data, _deserialize_with_compression(large.data),
                     large.failed)
        ELSE IF (large.calls + 1) \in faults
        THEN Miss(store, TRUE)
        ELSE LET cached_data == store[PlainKey(LogitBase)].value IN
               Decoded(store, cached_data, _deserialize_with_compression(cached_data),
                       large.failed)

\* RedisCache.set_sam_logit: chunked when the framed value is larger than
\* MAX_VALUE_SIZE, under the key itself otherwise and when chunking failed
set_sam_logit(store, image_path, logit_value, ttl, faults) ==
    IF _get_image_hash(image_path).raised THEN Miss(store, FALSE)
    ELSE
      LET serialized_data == _serialize_with_compression(logit_value)
          large == Len(serialized_data) > MAX_VALUE_SIZE
          split == IF large
                   THEN _split_large_data(store, LogitBase, serialized_data, ttl, faults, 0)
                   ELSE [store |-> store, success |-> FALSE, calls |-> 0,
                         failed |-> FALSE, writes |-> {}]
      IN IF split.success
         THEN Outcome(split.store, FALSE, <<>>, FALSE, split.writes)
         ELSE IF (split.calls + 1) \in faults
         THEN Outcome(split.store, FALSE, <<>>, TRUE, split.writes)
         ELSE Outcome(setex(split.store, PlainKey(LogitBase), ttl, serialized_data),
                      FALSE, <<>>, split.failed,
                      split.writes \cup {<<PlainKey(LogitBase), Len(serialized_data)>>})

\* get_cache without its try/except: the backend's exception leaves the method
get_cache_unguarded(store, faults) ==
    IF 1 \in faults THEN [Miss(store, TRUE) EXCEPT !.raised = TRUE]
    ELSE LET cached_data == store[PlainKey(CacheBase)].value IN
           Decoded(store, cached_data, pickle_loads(cached_data), FALSE)

\* RedisCache.get_cache
get_cache(store, faults) ==
    IF 1 \in faults THEN Miss(store, TRUE)
    ELSE LET cached_data == store[PlainKey(CacheBase)].value IN
           Decoded(store, cached_data, pickle_loads(cached_data), FALSE)

\* RedisCache.set_cache
set_cache(store, value, ttl, faults) ==
    IF 1 \in faults THEN Miss(store, TRUE)
    ELSE LET serialized_data == pickle_dumps(value) IN
           Outcome(setex(store, PlainKey(CacheBase), ttl, serialized_data), FALSE, <<>>,
                   FALSE, {<<PlainKey(CacheBase), Len(serialized_data)>>})

\* A session is a dict with one list-valued field: json.dumps / json.loads
json_dumps_list(value) == <<91>> \o value \o <<93>>
json_loads_list(data) ==
    IF Len(data) >= 2 /\ data[1] = 91 /\ data[Len(data)] = 93
    THEN SubSeq(data, 2, Len(data) - 1)
    ELSE data
Sessions == {Bits(1, 0), Bits(0, 1)}

\* Values given to set_sam_embedding and set_cache: a short one, the longest
Artifacts == {Bits(0, 1), Bits(0, MaxPayload)}

\* RedisCache.get_user_session: hgetall
get_user_session(store, faults) ==
    IF 1 \in faults THEN Miss(store, TRUE)
    ELSE LET session_data == store[PlainKey(SessionBase)].value IN
           IF session_data = <<>> THEN Miss(store, FALSE)
           ELSE Outcome(store, TRUE, json_loads_list(session_data), FALSE, {})

\* RedisCache.set_user_session: hset, which leaves the key's TTL as it is,
\* then expire
set_user_session(store, session_data, ttl, faults) ==
    IF 1 \in faults THEN Miss(store, TRUE)
    ELSE LET serialized_data == json_dumps_list(session_data)
             key == PlainKey(SessionBase)
             after_hset == [store EXCEPT ![key].value = serialized_data]
         IN IF 2 \in faults
            THEN Outcome(after_hset, FALSE, <<>>, TRUE, {<<key, Len(serialized_data)>>})
            ELSE Outcome([after_hset EXCEPT ![key].ttl = ttl], FALSE, <<>>, FALSE,
                         {<<key, Len(serialized_data)>>})

\* RedisCache.update_user_session_field: hset alone, which creates the key
\* when the backend does not hold it and never gives it a TTL
update_user_session_field(store, value, faults) ==
    IF 1 \in faults THEN Miss(store, TRUE)
    ELSE LET serialized_value == json_dumps_list(value)
             key == PlainKey(SessionBase)
         IN Outcome([store EXCEPT ![key].value = serialized_value], FALSE, <<>>, FALSE,
                    {<<key, Len(serialized_value)>>})

\* RedisCache.cleanup_expired_chunks: keys("*:info") lists the manifests the
\* backend holds; of these, expired are the ones whose TTL runs out before
\* the method asks exists(info_key). The chunks of a manifest are deleted
\* when exists says no and get still returns the manifest.
cleanup_expired_chunks(store, expired, faults) ==
    IF 1 \in faults THEN Miss(store, TRUE)
    ELSE
      LET info_keys == {k \in InfoKeys : store[k].value # <<>>}
          later == [k \in RedisKeys |-> IF k \in expired \cap info_keys THEN Absent
                                        ELSE store[k]]
          exists(k) == later[k].value # <<>>
          cleaned == {k \in info_keys : ~exists(k) /\ later[k].value # <<>>}
          chunk_keys == {x \in ChunkKeys :
                           \E k \in cleaned :
                             /\ x[1] = k[1]
                             /\ x[3] < chunk_info_loads(later[k].value).num_chunks}
      IN IF info_keys # {} /\ 2 \in faults
         THEN Miss(later, TRUE)
         ELSE [Miss([k \in RedisKeys |-> IF k \in chunk_keys THEN Absent ELSE later[k]],
                    FALSE)
                 EXCEPT !.deleted = {x \in chunk_keys : later[x].value # <<>>}]

NoOp == [op |-> None, image_path |-> None, hit |-> FALSE, value |-> <<>>, raised |-> FALSE, failed |-> FALSE,
         writes |-> {}, deleted |-> {}]

NoLogit == [value |-> <<>>, chunked |-> FALSE, num_chunks |-> 0, lost |-> {}]

\* RedisCache.__init__ on an empty backend
RedisInit ==
    /\ redis = EmptyRedis
    /\ redis_calls = 0
    /\ lastOp = NoOp
    /\ logit = NoLogit

\* ------------------------------------------------- concurrent set and get
NoWriter == [pc |-> "idle", value |-> <<>>, data |-> <<>>, i |-> 0, calls |-> 0]
NoReader == [pc |-> "idle", num_chunks |-> 0, i |-> 0, chunks |-> <<>>, calls |-> 0,
             returned |-> FALSE, hit |-> FALSE, value |-> <<>>]

NoDeadline == 0
\* the chunks written with half the TTL of the manifest
ChunkTtl_half(ttl) == ttl \div 2

\* _split_large_data: the ttl passed to setex for each chunk is the one the
\* manifest was written with
ChunkTtl(ttl) == ttl

\* an empty backend at time 0
ExpiryInit ==
    /\ redis_now = 0
    /\ deadline = [k \in RedisKeys |-> NoDeadline]

RaceInit ==
    /\ writer = NoWriter
    /\ reader = NoReader
    /\ written = {}

\* What get_sam_logit returns for the bytes it read: the decoded value, None
\* when there are none or the decoding raises
Returned(rd, cached_data) ==
    LET decoded == _deserialize_with_compression(cached_data) IN
      [rd EXCEPT !.pc = "idle", !.returned = TRUE,
                 !.hit = cached_data # <<>> /\ ~decoded.raised,
                 !.value = IF cached_data # <<>> /\ ~decoded.raised
                           THEN decoded.value ELSE <<>>]

\* --------------------------------------------------------- click signature
\* A coordinate as it arrives in the JSON body: the int n, or the float n + 0.5
Int_(n) == [float |-> FALSE, n |-> n]
Float_(n) == [float |-> TRUE, n |-> n]
Click(x, y, clickType) == [x |-> x, y |-> y, clickType |-> clickType]

\* Clicks around the cell [grid_size, 2 * grid_size): two in it, one in it
\* with float coordinates, one just below it, one more than a cell away, one
\* of the other category, one in another row
Clicks ==
    {Click(Int_(grid_size), Int_(1), 1),
     Click(Int_(grid_size + 1), Int_(1), 1),
     Click(Float_(grid_size + 1), Float_(1), 1),
     Click(Int_(grid_size - 1), Int_(1), 1),
     Click(Int_(2 * grid_size + 1), Int_(1), 1),
     Click(Int_(grid_size), Int_(1), 0),
     Click(Int_(grid_size), Int_(grid_size + 2), 1)}

ClickLists == UNION {[1..k -> Clicks] : k \in 0..MaxClicks}

\* the coordinate moved by half a cell and not collapsed to its cell
Quantize_shifted(v, g) == [v EXCEPT !.n = v.n + g \div 2]

\* (v // grid_size) * grid_size + grid_size // 2: floor division keeps the
\* type of v, and the float n + 0.5 has the floor of n
Quantize(v, g) == [v EXCEPT !.n = (v.n \div g) * g + g \div 2]

Smoothed(click, g) ==
    [x |-> Quantize(click.x, g), y |-> Quantize(click.y, g), clickType |-> click.clickType]

\* key=lambda x: (x['x'], x['y'], x['clickType']): tuples compare item by
\* item, and an int equals the float of the same value
KeyLeq(a, b) ==
    \/ a.x.n < b.x.n
    \/ a.x.n = b.x.n /\ a.y.n < b.y.n
    \/ a.x.n = b.x.n /\ a.y.n = b.y.n /\ a.clickType <= b.clickType

\* list.sort is stable: an element goes after the elements it does not precede
RECURSIVE InsertSorted(_, _)
InsertSorted(sorted, c) ==
    IF sorted = <<>> THEN <<c>>
    ELSE IF KeyLeq(Head(sorted), c)
         THEN <<Head(sorted)>> \o InsertSorted(Tail(sorted), c)
         ELSE <<c>> \o sorted

RECURSIVE sort(_)
sort(smoothed_clicks) ==
    IF smoothed_clicks = <<>> THEN <<>>
    ELSE InsertSorted(sort(SubSeq(smoothed_clicks, 1, Len(smoothed_clicks) - 1)),
                      smoothed_clicks[Len(smoothed_clicks)])

\* f"{v}" of an int and of a float with an integral value
Format(v) == IF v.float THEN ToString(v.n) \o ".0" ELSE ToString(v.n)
FormatClick(c) == Format(c.x) \o "," \o Format(c.y) \o "," \o ToString(c.clickType)

\* "_".join(...)
RECURSIVE join(_, _)
join(sep, strs) ==
    IF strs = <<>> THEN ""
    ELSE IF Len(strs) = 1 THEN strs[1]
    ELSE strs[1] \o sep \o join(sep, Tail(strs))

\* click_str += f"...;" for each click
RECURSIVE concat(_)
concat(strs) == IF strs = <<>> THEN "" ELSE strs[1] \o ";" \o concat(Tail(strs))

\* hashlib.md5(s.encode()).hexdigest(), taken to be collision-free, and its
\* first 16 characters
md5_hexdigest(s) == [md5 |-> s, chars |-> 32]
md5_hexdigest_16(s) == [md5 |-> s, chars |-> 16]

\* generate_click_signature
generate_click_signature(clicks, g) ==
    IF clicks = <<>> THEN md5_hexdigest_16("")
    ELSE LET smoothed_clicks == sort([i \in 1..Len(clicks) |-> Smoothed(clicks[i], g)])
             click_str == join("_", [i \in 1..Len(clicks) |->
                                       FormatClick(smoothed_clicks[i])])
         IN md5_hexdigest_16(click_str)

\* generate_click_signature_full
generate_click_signature_full(clicks, g) ==
    IF clicks = <<>> THEN md5_hexdigest("")
    ELSE LET smoothed_clicks == sort([i \in 1..Len(clicks) |-> Smoothed(clicks[i], g)])
             click_str == concat([i \in 1..Len(clicks) |->
                                    FormatClick(smoothed_clicks[i])])
         IN md5_hexdigest(click_str)

NoSignature == [fn |-> None, clicks1 |-> <<>>, clicks2 |-> <<>>,
                sig1 |-> md5_hexdigest(""), sig2 |-> md5_hexdigest("")]

SignatureInit == lastSignature = NoSignature

\* --------------------------------------------------------- message handlers
\* Images named in SEGMENT payloads: two files that exist and one that is gone
SegmentImages == {"page.png", "other.png", "gone.png"}

\* Click lists of SEGMENT payloads: clicks of one grid cell, with int and with
\* float coordinates
SegmentClicks ==
    {Click(Int_(grid_size), Int_(1), 1),
     Click(Int_(grid_size + 1), Int_(1), 1),
     Click(Float_(grid_size + 1), Float_(1), 1)}
SegmentClickLists == UNION {[1..k -> SegmentClicks] : k \in 1..MaxClicks}

\* What loading the image, computing the embedding and predicting may do
SegmentOutcomes == {"ok", "compute_raises", "predict_raises"}

\* A file that is gone: os.stat raises
NoFile == -1

\* MessageHandlers._get_image_hash: path, mtime and size of the file, the
\* path alone when os.stat raises
handlers_get_image_hash(fs, image_path) == [path |-> image_path, stat |-> fs[image_path]]
NoHash == [path |-> None, stat |-> NoFile]

\* self.embedding_cache as the set of its entries
Hashes(ec) == {entry.image_hash : entry \in ec}
Entry(ec, image_hash) == CHOOSE entry \in ec : entry.image_hash = image_hash

\* MessageHandlers._evict_oldest_embedding: with the cache full, the entry
\* with the smallest last_accessed is deleted
_evict_oldest_embedding(ec) ==
    IF Cardinality(ec) >= handlers_max_cache_size
    THEN LET oldest == CHOOSE entry \in ec :
                         \A other \in ec : entry.last_accessed <= other.last_accessed
         IN ec \ {oldest}
    ELSE ec

\* MessageHandlers._get_or_compute_embedding: the embedding (here the hash of
\* the image it belongs to), or None when loading or computing raised
_get_or_compute_embedding(ec, st, fs, image_path, t, outcome) ==
    LET image_hash == handlers_get_image_hash(fs, image_path) IN
      IF image_hash \in Hashes(ec)
      THEN LET cache_entry == Entry(ec, image_hash) IN
             [cache |-> (ec \ {cache_entry}) \cup
                          {[cache_entry EXCEPT !.last_accessed = t,
                                               !.access_count = @ + 1]},
              stats |-> [st EXCEPT !.embedding_cache_hits = @ + 1],
              embedding |-> image_hash, hit |-> TRUE, computed |-> FALSE]
      ELSE IF fs[image_path] = NoFile \/ outcome = "compute_raises"
      THEN [cache |-> ec, stats |-> st, embedding |-> NoHash, hit |-> FALSE,
            computed |-> fs[image_path] # NoFile]
      ELSE [cache |-> _evict_oldest_embedding(ec) \cup
                        {[image_hash |-> image_hash, last_accessed |-> t,
                          access_count |-> 1]},
            stats |-> [st EXCEPT !.embedding_cache_misses = @ + 1],
            embedding |-> image_hash, hit |-> FALSE, computed |-> TRUE]

NoHandled == <<>>

HandlerInit ==
    /\ embedding_cache = {}
    /\ processing_stats = [sam_processed |-> 0, embedding_cache_hits |-> 0,
                           embedding_cache_misses |-> 0]
    /\ current_image_path = None
    /\ features = NoHash
    /\ files = [f \in SegmentImages |-> IF f = "gone.png" THEN NoFile ELSE 0]
    /\ clock = 0
    /\ handled = NoHandled

\* --------------------------------------------------------------------- Init
\* any number of delayed_send tasks run at once
WorkerFree_unbounded(tasks) == TRUE

\* ThreadPoolExecutor(max_workers=10): a task starts when fewer than
\* max_workers tasks are running; delayed_send runs (sleeps) until it ends.
WorkerFree(tasks) ==
    Cardinality({j \in DOMAIN tasks : tasks[j].state = "sleeping"}) < max_workers

NotStarted == -1
NoWake == [called |-> FALSE, busy |-> FALSE, delay |-> 0, started |-> NotStarted, at |-> 0]

\* RocketMQManager.__init__: the executor has no task
PoolInit ==
    /\ pool = <<>>
    /\ pool_now = 0
    /\ scheduled = 0
    /\ finished = 0
    /\ lastWake = NoWake

CallbackThreads == 1..NumCallbackThreads
NoCallback == [pc |-> "idle", counter |-> None, loaded |-> 0, calls |-> 0]

CallbackInit ==
    /\ callbacks = [th \in CallbackThreads |-> NoCallback]
    /\ handler_ends = [returned |-> 0, raised |-> 0]

\* shutdown() has not been called
ShutdownInit == shutting_down = "running"

\* -------------------------------------------------- concurrent handlers
SegmentThreads == 1..NumSegmentThreads

\* No image: features of a predictor no image was set on, a local not yet
\* assigned
NoImage == 0

\* The images the messages name: image 1, cached once the worker has handled
\* anything, and two images it has not seen
ThreadImages == {1, handlers_max_cache_size + 1, handlers_max_cache_size + 2}

NoSegment == [pc |-> "idle", image_path |-> NoImage, embedding |-> NoImage,
              returned |-> NoImage, oldest_key |-> NoImage,
              predicted_with |-> NoImage, raised |-> FALSE]
NoEvicted == [key |-> NoImage, was_oldest |-> TRUE]

\* MessageHandlers.__init__: an empty cache, no image set on the predictor
WorkerInit ==
    /\ segment_threads = [th \in SegmentThreads |-> NoSegment]
    /\ shared_cache = {}
    /\ predictor_features = NoImage
    /\ shared_embedding = NoImage
    /\ segment_clock = 0
    /\ segment_begun = 0
    /\ last_evicted = NoEvicted

\* The worker after it handled the messages of k images one after the other:
\* each image has its entry, with its own embedding, stamped in that order
WarmCache(k) == {[image_hash |-> i, embedding |-> i, last_accessed |-> i] : i \in 1..k}
WarmWorkerInit ==
    \E k \in 0..handlers_max_cache_size :
       /\ segment_threads = [th \in SegmentThreads |-> NoSegment]
       /\ shared_cache = WarmCache(k)
       /\ predictor_features = k
       /\ shared_embedding = k
       /\ segment_clock = k
       /\ segment_begun = 0
       /\ last_evicted = NoEvicted

\* min(self.embedding_cache.keys(), key=... ['last_accessed'])
OldestKey(ec) ==
    (CHOOSE entry \in ec : \A other \in ec : entry.last_accessed <= other.last_accessed).image_hash

\* ------------------------------------------------- page processing locks
LockCallers == 1..NumLockCallers
LockPages == 1..NumLockPages

NoLock == [caller |-> 0, page_id |-> 0, returned |-> FALSE, raised |-> FALSE]

\* YOLORedisCache.__init__ on a backend without lock keys
LockInit ==
    /\ page_locks = [page_id \in LockPages |-> 0]
    /\ processing = [caller \in LockCallers |-> {}]
    /\ lock_calls = 0
    /\ lock_now = 0
    /\ lastLock = NoLock

\* self.redis_client.set(lock_key, "locked", nx=True, ex=ttl): the key is
\* written, with its time to live, only when it is absent
set_nx_ex(store, lock_key, ttl) ==
    IF store[lock_key] = 0
    THEN [store |-> [store EXCEPT ![lock_key] = ttl], reply |-> TRUE]
    ELSE [store |-> store, reply |-> FALSE]

\* YOLORedisCache.set_page_processing_lock: True when the key was written,
\* False when it was there or when the backend raised
set_page_processing_lock(store, page_id, ttl, backend_raises) ==
    IF backend_raises
    THEN [store |-> store, returned |-> FALSE]
    ELSE LET lock_acquired == set_nx_ex(store, page_id, ttl) IN
           [store |-> lock_acquired.store, returned |-> lock_acquired.reply]

\* YOLORedisCache.release_page_processing_lock: the key is deleted, whoever
\* wrote it; a backend error is logged
release_page_processing_lock(store, page_id, backend_raises) ==
    IF backend_raises THEN store ELSE [store EXCEPT ![page_id] = 0]

BrokerInit ==
    /\ server = "starting"
    /\ startup_error = [kind |-> None, type |-> None]
    /\ manager = None
    /\ producer = None
    /\ consumers = {}
    /\ message_handlers = {}
    /\ stats = [messages_sent |-> 0, messages_consumed |-> 0, messages_failed |-> 0]
    /\ executor = <<>>
    /\ broker = <<>>
    /\ dlq = <<>>
    /\ published = 0
    /\ lastSend = NoSend
    /\ lastHandle = NoHandle
    /\ track = NewTrack(None, NoBody)

Init == BrokerInit /\ EmbeddingInit /\ ThreadInit /\ RedisInit /\ RaceInit /\ SignatureInit /\ HandlerInit /\ PoolInit /\ ExpiryInit /\ EvictInit /\ CallbackInit /\ ShutdownInit /\ WorkerInit /\ LockInit /\ backend = "reliable"

\* The same start with a backend whose calls may raise
InitUnreliable ==
    BrokerInit /\ EmbeddingInit /\ ThreadInit /\ RedisInit /\ RaceInit /\ SignatureInit /\ HandlerInit /\ PoolInit /\ ExpiryInit /\ EvictInit /\ CallbackInit /\ ShutdownInit /\ WorkerInit /\ LockInit /\ backend = "unreliable"

\* ------------------------------------------------------------------ start-up
\* lifespan / init_yolo_services: init_rocketmq_manager(...); an exception
\* leaves the start-up.
InitManager ==
    /\ server = "starting"
    /\ manager = None
    /\ \E producer_starts \in BOOLEAN :
         LET r == init_rocketmq_manager(producer_starts) IN
           /\ manager' = r.manager
           /\ producer' = r.producer
           /\ server' = IF r.raised THEN "aborted" ELSE server
           /\ startup_error' = IF r.raised THEN [kind |-> "producer", type |-> None]
                               ELSE startup_error
    /\ UNCHANGED <<consumers, message_handlers, stats, executor, broker, dlq, published,
                   lastSend, lastHandle, track>>
    /\ UNCHANGED <<lockVars, workerVars, shutdownVars, callbackVars, evictVars, expiryVars, poolVars, raceVars, signatureVars, handlerVars, embeddingVars, threadVars, redisVars>>

\* RocketMQManager.register_message_handler
RegisterHandler(t) ==
    /\ server = "starting"
    /\ manager # None
    /\ t \notin message_handlers
    /\ message_handlers' = message_handlers \cup {t}
    /\ UNCHANGED <<server, startup_error, manager, producer, consumers, stats, executor,
                   broker, dlq, published, lastSend, lastHandle, track>>
    /\ UNCHANGED <<lockVars, workerVars, shutdownVars, callbackVars, evictVars, expiryVars, poolVars, raceVars, signatureVars, handlerVars, embeddingVars, threadVars, redisVars>>

\* RocketMQManager.start_consumer called by the start-up
StartConsumer(t) ==
    /\ server = "starting"
    /\ manager # None
    /\ t \notin consumers
    /\ \E consumer_starts \in BOOLEAN :
         LET r == start_consumer(t, consumer_starts) IN
           /\ consumers' = r.consumers
           /\ server' = IF r.raised THEN "aborted" ELSE server
           /\ startup_error' = IF r.raised THEN [kind |-> "consumer", type |-> t]
                               ELSE startup_error
    /\ UNCHANGED <<manager, producer, message_handlers, stats, executor, broker, dlq,
                   published, lastSend, lastHandle, track>>
    /\ UNCHANGED <<lockVars, workerVars, shutdownVars, callbackVars, evictVars, expiryVars, poolVars, raceVars, signatureVars, handlerVars, embeddingVars, threadVars, redisVars>>

\* The start-up returns without an exception: the server serves requests.
StartupDone ==
    /\ server = "starting"
    /\ manager # None
    /\ server' = "serving"
    /\ UNCHANGED <<startup_error, manager, producer, consumers, message_handlers, stats,
                   executor, broker, dlq, published, lastSend, lastHandle, track>>
    /\ UNCHANGED <<lockVars, workerVars, shutdownVars, callbackVars, evictVars, expiryVars, poolVars, raceVars, signatureVars, handlerVars, embeddingVars, threadVars, redisVars>>

\* ------------------------------------------------------------------ messages
\* One message is followed at a time: a new one is created when nothing is
\* queued or pending, and the history (track, lastSend, lastHandle, the
\* content of the dead-letter topic) starts anew with it. The counters of
\* stats run on.
\* Another producer publishes a wire body to the topic of its priority, with
\* any of the tags the consumers subscribe with.
ProducerPublish ==
    /\ published < MaxMessages
    /\ Quiescent
    /\ \E ty \in WireTypeValues, tag \in ServedTypes, pr \in WirePriorityValues,
          mx \in 0..MaxRetries, rc \in 0..MaxRetries :
         LET body == WireBody(published + 1, ty, pr, mx, rc) IN
           /\ broker' = <<Message(topics[MessagePriorityOf(pr)], body.message_id, tag, body,
                                  <<>>)>>
           /\ track' = NewTrack("producer", body)
    /\ published' = published + 1
    /\ dlq' = <<>>
    /\ lastSend' = NoSend
    /\ lastHandle' = NoHandle
    /\ UNCHANGED <<server, startup_error, manager, producer, consumers, message_handlers,
                   stats, executor>>
    /\ UNCHANGED <<lockVars, workerVars, shutdownVars, callbackVars, evictVars, expiryVars, poolVars, raceVars, signatureVars, handlerVars, embeddingVars, threadVars, redisVars>>

\* A request thread builds a SegmentMessage (send_yolo_detect_message,
\* send_sam_segment_message, send_batch_process_message) and calls send_message.
SendMessageCall ==
    /\ server = "serving"
    /\ published < MaxMessages
    /\ Quiescent
    /\ \E ty \in MessageType, pr \in MessagePriority, broker_result \in BrokerResults :
         LET message == [message_id |-> published + 1, message_type |-> ty,
                         user_id |-> "user", project_id |-> "project",
                         payload |-> "payload", priority |-> pr, max_retries |-> 3,
                         retry_count |-> 0, created_at |-> 1]
             r == send_message(message, broker_result)
         IN
           /\ lastSend' = [called |-> TRUE, by |-> "caller", message |-> message,
                           broker_result |-> broker_result] @@ r
           /\ broker' = broker \o r.published
           /\ stats' = [stats EXCEPT !.messages_sent = @ + r.messages_sent]
           /\ track' = NewTrack("send_message", WireOf(message))
    /\ published' = published + 1
    /\ dlq' = <<>>
    /\ lastHandle' = NoHandle
    /\ UNCHANGED <<server, startup_error, manager, producer, consumers, message_handlers,
                   executor>>
    /\ UNCHANGED <<lockVars, workerVars, shutdownVars, callbackVars, evictVars, expiryVars, poolVars, raceVars, signatureVars, handlerVars, embeddingVars, threadVars, redisVars>>

\* message_listener of the consumer started for type t: the broker delivers a
\* queued message whose tag matches the subscription.
HandleMessage(t) ==
    /\ server # "aborted"
    /\ t \in consumers
    /\ \E i \in DOMAIN broker, handler_outcome \in {"returns", "raises"},
          broker_result \in BrokerResults :
         LET mq == broker[i]
             r == _handle_message(mq, MessageTypeOf(t), handler_outcome, broker_result)
             tracked == mq.keys = track.original.message_id
         IN
           /\ mq.tags = t
           /\ broker' = IF r.result = "CONSUME_SUCCESS" THEN RemoveAt(broker, i) ELSE broker
           /\ executor' = executor \o r.retry
           /\ dlq' = dlq \o r.dlq_stored
           /\ stats' = [stats EXCEPT !.messages_consumed = @ + r.messages_consumed,
                                     !.messages_failed = @ + r.messages_failed]
           /\ lastHandle' = [called |-> TRUE, expected_type |-> t,
                             handler_outcome |-> handler_outcome,
                             broker_result |-> broker_result, mq_message |-> mq] @@ r
           /\ track' = IF ~tracked THEN track ELSE
                 [track EXCEPT
                    !.handler_calls = @ + (IF r.handler = "not_called" THEN 0 ELSE 1),
                    !.handler_returns = @ + (IF r.handler = "returned" THEN 1 ELSE 0),
                    !.retries_scheduled = @ + Len(r.retry),
                    !.dlq_sends = @ + Len(r.dlq_sends),
                    !.dlq_published = @ + Len(r.dlq_stored),
                    !.broker_failures = @ + Len(r.dlq_sends) - Len(r.dlq_stored),
                    !.acknowledged = @ + (IF r.result = "CONSUME_SUCCESS" THEN 1 ELSE 0)]
    /\ UNCHANGED <<server, startup_error, manager, producer, consumers, message_handlers,
                   published, lastSend>>
    /\ UNCHANGED <<lockVars, workerVars, shutdownVars, callbackVars, evictVars, expiryVars, poolVars, raceVars, signatureVars, handlerVars, embeddingVars, threadVars, redisVars>>

\* A free worker of the executor takes the oldest submitted task and starts
\* delayed_send, which sleeps for the delay.
WorkerStart ==
    /\ \E i \in DOMAIN executor :
         /\ executor[i].state = "queued"
         /\ \A j \in 1..(i - 1) : executor[j].state = "sleeping"
         /\ WorkerFree(executor)
         /\ executor' = [executor EXCEPT ![i].state = "sleeping"]
    /\ UNCHANGED <<server, startup_error, manager, producer, consumers, message_handlers,
                   stats, broker, dlq, published, lastSend, lastHandle, track>>
    /\ UNCHANGED <<lockVars, workerVars, shutdownVars, callbackVars, evictVars, expiryVars, poolVars, raceVars, signatureVars, handlerVars, embeddingVars, threadVars, redisVars>>

\* delayed_send after the sleep: self.send_message(message). An exception of
\* send_message ends the task and stays in its Future, which nobody reads.
DelayedSend ==
    /\ \E i \in DOMAIN executor, broker_result \in BrokerResults :
         LET task == executor[i]
             r == send_message(task.message, broker_result)
             tracked == task.message.message_id = track.original.message_id
         IN
           /\ task.state = "sleeping"
           /\ executor' = RemoveAt(executor, i)
           /\ lastSend' = [called |-> TRUE, by |-> "retry", message |-> task.message,
                           broker_result |-> broker_result] @@ r
           /\ broker' = broker \o r.published
           /\ stats' = [stats EXCEPT !.messages_sent = @ + r.messages_sent]
           /\ track' = IF ~tracked THEN track ELSE
                 [track EXCEPT
                    !.republished = @ + Len(r.published),
                    !.broker_failures = @ + (IF r.send_sync /\ r.raised THEN 1 ELSE 0)]
    /\ UNCHANGED <<server, startup_error, manager, producer, consumers, message_handlers,
                   dlq, published, lastHandle>>
    /\ UNCHANGED <<lockVars, workerVars, shutdownVars, callbackVars, evictVars, expiryVars, poolVars, raceVars, signatureVars, handlerVars, embeddingVars, threadVars, redisVars>>

Next ==
    \/ InitManager
    \/ \E t \in ServedTypes : RegisterHandler(t)
    \/ \E t \in ServedTypes : StartConsumer(t)
    \/ StartupDone
    \/ ProducerPublish
    \/ SendMessageCall
    \/ \E t \in ServedTypes : HandleMessage(t)
    \/ WorkerStart
    \/ DelayedSend

Spec == Init /\ [][Next]_vars

\* =================================================================== claims
TrackedId == track.original.message_id
\* The tracked message was handed to a handler and nothing of it is queued
\* or pending any more.
TrackedAtRest == track.handler_calls > 0 /\ ~InBroker(TrackedId) /\ ~InExecutor(TrackedId)

\* C1: a message published with retry_count 0 and max_retries n whose handler
\* raises on every delivery, with every broker publish succeeding, ends with
\* n+1 handler invocations, n re-publishes to its priority topic, one
\* dead-letter publish, and a dead-lettered body with retry_count n.
C1_RetriedThenDeadLettered ==
    (/\ track.original.retry_count = 0
     /\ track.handler_returns = 0
     /\ track.broker_failures = 0
     /\ TrackedAtRest)
    => /\ track.handler_calls = track.original.max_retries + 1
       /\ track.republished = track.original.max_retries
       /\ track.dlq_published = 1
       /\ Len(dlq) = 1
       /\ dlq[1].body.retry_count = track.original.max_retries

\* C2 as stated: the delay before the k-th retry publish (the one that makes
\* retry_count k) is min(300, 10 * 2^(k-1)): 10s, 20s, 40s, ...
C2_DelaysFromTen ==
    \A i \in DOMAIN executor :
        executor[i].delay =
            Min(RetryDelayCap, RetryBaseDelay * Pow2(executor[i].message.retry_count - 1))

\* C2 amended: the delay before the k-th retry publish is min(300, 10 * 2^k):
\* 20s, 40s, 80s, 160s, then 300s.
C2_DelaysFromTwenty ==
    \A i \in DOMAIN executor :
        /\ executor[i].delay =
              Min(RetryDelayCap, RetryBaseDelay * Pow2(executor[i].message.retry_count))
        /\ executor[i].delay <= RetryDelayCap
        /\ executor[i].message.retry_count = 1 => executor[i].delay = 20
        /\ executor[i].message.retry_count = 2 => executor[i].delay = 40
        /\ executor[i].message.retry_count = 3 => executor[i].delay = 80

\* A retry whose uncapped delay would exceed the cap sleeps before its publish.
C2_Witness ==
    \E i \in DOMAIN executor :
        /\ executor[i].state = "sleeping"
        /\ executor[i].message.retry_count = 5
        /\ executor[i].delay = 300

\* C3: for a message created with retry_count <= max_retries, every copy on
\* its way to a priority topic (queued on it, handed to send_message by a
\* retry, or waiting in the executor) has retry_count <= max_retries; and once
\* a message is on the dead-letter topic, no copy of it is queued for a
\* handler or waits to be re-published.
C3_RetryCountBounded ==
    /\ track.original.retry_count <= track.original.max_retries =>
         /\ \A i \in DOMAIN broker :
               broker[i].keys = TrackedId =>
                   broker[i].body.retry_count <= broker[i].body.max_retries
         /\ \A i \in DOMAIN executor :
               executor[i].message.message_id = TrackedId =>
                   executor[i].message.retry_count <= executor[i].message.max_retries
         /\ (lastSend.called /\ lastSend.message.message_id = TrackedId) =>
               lastSend.message.retry_count <= lastSend.message.max_retries
    /\ \A i \in DOMAIN dlq : ~InBroker(dlq[i].keys) /\ ~InExecutor(dlq[i].keys)

\* A message that arrived with its retries used up was handed to the handler,
\* which raised, and is on the dead-letter topic.
C3_Witness ==
    /\ track.original.retry_count = track.original.max_retries
    /\ track.original.max_retries > 0
    /\ track.handler_calls = 1
    /\ track.dlq_published = 1
    /\ InDlq(TrackedId)

\* C4: a message handed to a handler ends acknowledged after a handler run
\* that returned, or dead-lettered; it is not acknowledged and then lost.
C4_NoSilentLoss ==
    TrackedAtRest => track.handler_returns > 0 \/ InDlq(TrackedId)

C8_OneTopicByPriority ==
    /\ Cardinality({topics[p] : p \in MessagePriority}) = 4
    /\ \A p \in MessagePriority : topics[p] # dlq_topic
    /\ (lastSend.called /\ lastSend.broker_result = "ok") =>
          /\ Len(lastSend.published) = 1
          /\ lastSend.published[1].topic = topics[lastSend.message.priority]
          /\ lastSend.published[1].topic # dlq_topic
          /\ lastSend.message.message_id = TrackedId =>
                lastSend.published[1].topic = topics[MessagePriorityOf(track.original.priority)]

\* Whether a _handle_message call h, made with the handlers registered, is a
\* dead-letter case: the body parses to the consumer's type and no handler is
\* registered, or the handler raised with retry_count >= max_retries.
DeadLetterCase(h, handlers) ==
    LET parsed == ParseBody(h.mq_message.body) IN
      /\ parsed.ok
      /\ parsed.message.message_type.value = h.expected_type
      /\ \/ h.expected_type \notin handlers
         \/ /\ h.handler_outcome = "raises"
            /\ parsed.message.retry_count >= parsed.message.max_retries

\* C9: in a dead-letter case exactly one message is sent to the dead-letter
\* topic, with the body and keys of the consumed message, a failure reason
\* and a failure timestamp; the broker stores it when it accepts the send;
\* no retry is scheduled.
C9_DeadLetterOnce ==
    [][(/\ Len(broker') < Len(broker)
        /\ lastHandle'.called
        /\ DeadLetterCase(lastHandle', message_handlers))
       => /\ Len(lastHandle'.dlq_sends) = 1
          /\ lastHandle'.dlq_sends[1].topic = dlq_topic
          /\ lastHandle'.dlq_sends[1].body = lastHandle'.mq_message.body
          /\ lastHandle'.dlq_sends[1].keys = lastHandle'.mq_message.keys
          /\ DOMAIN lastHandle'.dlq_sends[1].properties = {"ERROR_REASON", "FAILED_AT"}
          /\ dlq' = dlq \o (IF lastHandle'.broker_result = "ok"
                            THEN lastHandle'.dlq_sends ELSE <<>>)
          /\ lastHandle'.retry = <<>>
          /\ executor' = executor]_vars

\* A message with retries left reached a consumer without a handler and is
\* on the dead-letter topic with its body unchanged; no retry is pending.
C9_Witness ==
    /\ lastHandle.called
    /\ lastHandle.expected_type \notin message_handlers
    /\ DeadLetterCase(lastHandle, message_handlers)
    /\ lastHandle.mq_message.body.retry_count < lastHandle.mq_message.body.max_retries
    /\ Len(dlq) = 1
    /\ dlq[1].body = lastHandle.mq_message.body
    /\ dlq[1].keys = lastHandle.mq_message.keys
    /\ executor = <<>>

\* C10: when the producer cannot be started no manager is installed and
\* get_rocketmq_manager raises RuntimeError; when a consumer cannot be started
\* its type is not among the active consumers; in both cases the start-up is
\* aborted and the server does not serve.
C10_StartupFailsFast ==
    /\ startup_error.kind = "producer" =>
          /\ manager = None
          /\ get_rocketmq_manager = "RuntimeError"
          /\ consumers = {}
    /\ startup_error.kind = "consumer" => startup_error.type \notin consumers
    /\ startup_error.kind # None => server = "aborted"
    /\ server = "serving" => manager # None /\ producer = "started"

\* The consumer could not be started: the start-up is aborted with the
\* manager installed and no consumer recorded.
C10_Witness ==
    /\ startup_error.kind = "consumer"
    /\ server = "aborted"
    /\ manager # None
    /\ startup_error.type \notin consumers


\* ============================================================================
\* Calls on the embedding cache, one after the other
\* ============================================================================
\* The EmbeddingCache object as the methods take it
Self == EmbeddingCache(cache, current_memory_bytes, cache_stats)

CallOf(op, image_path, embedding, s) ==
    [op |-> op, image_path |-> image_path, embedding |-> embedding, before |-> cache,
     evicted |-> s.evicted, returned |-> s.returned, raised |-> FALSE]

\* cache.put(image_path, embedding)
Put ==
    /\ now < MaxCalls
    /\ \E image_path \in ImagePaths, embedding \in Embeddings :
         LET s == put(Self, image_path, embedding, now + 1) IN
           /\ cache' = s.cache
           /\ current_memory_bytes' = s.current_memory_bytes
           /\ cache_stats' = s.stats
           /\ lastCall' = CallOf("put", image_path, embedding, s)
    /\ now' = now + 1
    /\ UNCHANGED <<brokerVars, lockVars, workerVars, shutdownVars, callbackVars, evictVars, expiryVars, poolVars, handlerVars, signatureVars, raceVars, redisVars, threadVars>>

\* cache.get(image_path)
Get ==
    /\ now < MaxCalls
    /\ \E image_path \in ImagePaths :
         LET s == get(Self, image_path, now + 1) IN
           /\ cache' = s.cache
           /\ current_memory_bytes' = s.current_memory_bytes
           /\ cache_stats' = s.stats
           /\ lastCall' = CallOf("get", image_path, NoEmbedding, s)
    /\ now' = now + 1
    /\ UNCHANGED <<brokerVars, lockVars, workerVars, shutdownVars, callbackVars, evictVars, expiryVars, poolVars, handlerVars, signatureVars, raceVars, redisVars, threadVars>>

\* cache.remove(image_path)
Remove ==
    /\ now < MaxCalls
    /\ \E image_path \in ImagePaths :
         LET s == remove(Self, image_path) IN
           /\ cache' = s.cache
           /\ current_memory_bytes' = s.current_memory_bytes
           /\ cache_stats' = s.stats
           /\ lastCall' = CallOf("remove", image_path, NoEmbedding, s)
    /\ now' = now + 1
    /\ UNCHANGED <<brokerVars, lockVars, workerVars, shutdownVars, callbackVars, evictVars, expiryVars, poolVars, handlerVars, signatureVars, raceVars, redisVars, threadVars>>

\* cache.clear()
Clear ==
    /\ now < MaxCalls
    /\ LET s == clear(Self) IN
         /\ cache' = s.cache
         /\ current_memory_bytes' = s.current_memory_bytes
         /\ cache_stats' = s.stats
         /\ lastCall' = CallOf("clear", 0, NoEmbedding, s)
    /\ now' = now + 1
    /\ UNCHANGED <<brokerVars, lockVars, workerVars, shutdownVars, callbackVars, evictVars, expiryVars, poolVars, handlerVars, signatureVars, raceVars, redisVars, threadVars>>

NextCache ==
    \/ Put
    \/ Get
    \/ Remove
    \/ Clear

SpecCache == Init /\ [][NextCache]_vars


\* ------------------------------------------------- claims on the cache's budget
RECURSIVE SumSizes(_)
SumSizes(seq) ==
    IF seq = <<>> THEN 0
    ELSE _estimate_embedding_size(Head(seq).embedding) + SumSizes(Tail(seq))

Oversized(embedding) == _estimate_embedding_size(embedding) > max_memory_bytes

\* C11: after every put, get, remove and clear, the size estimates of the
\* entries held add up to at most max_memory_bytes.
C11_MemoryWithinBudget == SumSizes(cache) <= max_memory_bytes

C13_EvictsLeastRecentlyUsed ==
    \A i \in DOMAIN lastCall.evicted :
      \A j \in DOMAIN lastCall.evicted[i].present :
        lastCall.evicted[i].victim.last_accessed
          <= lastCall.evicted[i].present[j].last_accessed

\* C14: a put of an embedding larger than the whole budget does not raise and
\* leaves no entry under its key.
C14_OversizedPutAbandoned ==
    (lastCall.op = "put" /\ Oversized(lastCall.embedding))
      => (~lastCall.raised /\ ~Contains(cache, lastCall.image_path))


\* ============================================================================
\* Threads calling one EmbeddingCache
\* ============================================================================
\* A thread calls a method and waits at "with self.lock" (the arguments of the
\* call are read once it is inside); once it holds the lock it runs the body, put in two steps (the eviction, then the store), and
\* leaving the with block releases the lock. serial is the same cache with
\* each call executed whole at the moment its thread got the lock.
Calls ==
    [op : {"put"}, image_path : ImagePaths, embedding : Embeddings]
      \cup [op : {"get", "remove"}, image_path : ImagePaths, embedding : {NoEmbedding}]
      \cup [op : {"clear"}, image_path : {0}, embedding : {NoEmbedding}]

\* One call executed whole
Apply(self, call, t) ==
    CASE call.op = "put" -> put(self, call.image_path, call.embedding, t)
      [] call.op = "get" -> get(self, call.image_path, t)
      [] call.op = "remove" -> remove(self, call.image_path)
      [] OTHER -> clear(self)

\* with self.lock entered by whoever comes, as if the methods took no lock
acquire_unlocked(owner) == TRUE

\* with self.lock: the lock is free (lock = 0 when no thread holds it)
acquire(owner) == owner = 0

\* A thread calls put, get, remove or clear.
Call(th) ==
    /\ threads[th].pc = "idle"
    /\ now + Cardinality({x \in Threads : threads[x].pc = "waiting"}) < MaxThreadCalls
    /\ threads' = [threads EXCEPT ![th].pc = "waiting"]
    /\ UNCHANGED <<brokerVars, lockVars, workerVars, shutdownVars, callbackVars, evictVars, expiryVars, poolVars, handlerVars, signatureVars, raceVars, redisVars, embeddingVars, lock, serial>>

\* The thread enters the with block.
Acquire(th) ==
    /\ threads[th].pc = "waiting"
    /\ acquire(lock)
    /\ lock' = th
    /\ now' = now + 1
    /\ \E call \in Calls :
         /\ threads' = [threads EXCEPT ![th] =
                          [pc |-> IF call.op = "put" THEN "evict" ELSE "body",
                           t |-> now + 1] @@ call]
         /\ serial' = [Apply(serial, call, now + 1) EXCEPT !.evicted = <<>>,
                                                           !.returned = NoEmbedding]
    /\ UNCHANGED <<brokerVars, lockVars, workerVars, shutdownVars, callbackVars, evictVars, expiryVars, poolVars, handlerVars, signatureVars, raceVars, redisVars, cache, current_memory_bytes, cache_stats, lastCall>>

\* put: self._evict_if_needed(embedding_size)
PutEvict(th) ==
    /\ threads[th].pc = "evict"
    /\ LET s == _evict_if_needed(Self, _estimate_embedding_size(threads[th].embedding)) IN
         /\ cache' = s.cache
         /\ current_memory_bytes' = s.current_memory_bytes
         /\ cache_stats' = s.stats
    /\ threads' = [threads EXCEPT ![th].pc = "store"]
    /\ UNCHANGED <<brokerVars, lockVars, workerVars, shutdownVars, callbackVars, evictVars, expiryVars, poolVars, handlerVars, signatureVars, raceVars, redisVars, now, lastCall, lock, serial>>

\* put: self.cache[image_path] = cache_entry; self.current_memory_bytes += size
PutStore(th) ==
    /\ threads[th].pc = "store"
    /\ LET c == threads[th]
           embedding_size == _estimate_embedding_size(c.embedding)
           cache_entry == [image_path |-> c.image_path, embedding |-> c.embedding,
                           size |-> embedding_size, created_at |-> c.t,
                           last_accessed |-> c.t, access_count |-> 0]
       IN /\ cache' = SetItem(cache, cache_entry)
          /\ current_memory_bytes' = current_memory_bytes + embedding_size
    /\ threads' = [threads EXCEPT ![th].pc = "release"]
    /\ UNCHANGED <<brokerVars, lockVars, workerVars, shutdownVars, callbackVars, evictVars, expiryVars, poolVars, handlerVars, signatureVars, raceVars, redisVars, cache_stats, now, lastCall, lock, serial>>

\* The body of get, remove or clear.
Body(th) ==
    /\ threads[th].pc = "body"
    /\ LET s == Apply(Self, threads[th], threads[th].t) IN
         /\ cache' = s.cache
         /\ current_memory_bytes' = s.current_memory_bytes
         /\ cache_stats' = s.stats
    /\ threads' = [threads EXCEPT ![th].pc = "release"]
    /\ UNCHANGED <<brokerVars, lockVars, workerVars, shutdownVars, callbackVars, evictVars, expiryVars, poolVars, handlerVars, signatureVars, raceVars, redisVars, now, lastCall, lock, serial>>

\* The thread leaves the with block and returns.
Release(th) ==
    /\ threads[th].pc = "release"
    /\ lock' = IF lock = th THEN 0 ELSE lock
    /\ threads' = [threads EXCEPT ![th] = Idle]
    /\ UNCHANGED <<brokerVars, lockVars, workerVars, shutdownVars, callbackVars, evictVars, expiryVars, poolVars, handlerVars, signatureVars, raceVars, redisVars, embeddingVars, serial>>

NextThreads ==
    \/ \E th \in Threads : Call(th)
    \/ \E th \in Threads : Acquire(th)
    \/ \E th \in Threads : PutEvict(th)
    \/ \E th \in Threads : PutStore(th)
    \/ \E th \in Threads : Body(th)
    \/ \E th \in Threads : Release(th)

SpecThreads == Init /\ [][NextThreads]_vars

InCall(th) == threads[th].pc \in {"evict", "store", "body", "release"}

\* C15: whenever no call is in progress, the entries, the running byte count
\* and the hit, miss and eviction counters are those of the calls made so far
\* executed one after the other, in the order in which they took the lock;
\* and at most one thread is inside a method at any time.
C15_CallsAreAtomic ==
    /\ Cardinality({th \in Threads : InCall(th)}) <= 1
    /\ (\A th \in Threads : ~InCall(th))
         => /\ cache = serial.cache
            /\ current_memory_bytes = serial.current_memory_bytes
            /\ cache_stats = serial.stats

\* Both threads have called while the cache was in use: one is between the
\* eviction and the store of a put that evicted, the other waits for the lock.
C15_Witness ==
    /\ \E th \in Threads : threads[th].pc = "store" /\ lock = th
    /\ \E th \in Threads : threads[th].pc = "waiting"
    /\ cache_stats.evictions > 0


\* ============================================================================
\* Calls on the distributed cache
\* ============================================================================
CallBudget == IF backend = "reliable" THEN MaxRedisCalls ELSE MaxFaultyCalls

\* Values given to set_sam_logit: every value on a backend that answers; a
\* short one, the longest compressible and the longest incompressible one on
\* a backend whose calls may raise
Logits ==
    IF backend = "reliable" THEN Values
    ELSE {Bits(0, 1), Bits(MaxPayload, 0), Bits(0, MaxPayload)}

Record(op, image_path, r) ==
    [op |-> op, image_path |-> image_path, hit |-> r.hit, value |-> r.value, raised |-> r.raised,
     failed |-> r.failed, writes |-> r.writes, deleted |-> r.deleted]

\* redis_cache.set_sam_logit(image_path, click_signature, logit)
SetSamLogit ==
    /\ redis_calls < CallBudget
    /\ \E image_path \in ImageFiles, v \in Logits,
          faults \in FaultChoices(backend, MaxBackendCalls) :
         LET r == set_sam_logit(redis, image_path, v, LogitTtl, faults)
             manifest == {w \in r.writes : w[1] = InfoKey(LogitBase)}
         IN /\ redis' = r.store
            /\ lastOp' = Record("set_sam_logit", image_path, r)
            /\ logit' = IF _get_image_hash(image_path).raised THEN logit
                        ELSE [value |-> v,
                              chunked |-> manifest # {} /\ ~r.failed,
                              num_chunks |-> IF manifest # {} /\ ~r.failed
                                             THEN Cardinality(r.writes) - 1 ELSE 0,
                              lost |-> IF r.failed THEN LogitKeys ELSE {}]
    /\ redis_calls' = redis_calls + 1
    /\ UNCHANGED <<brokerVars, lockVars, workerVars, shutdownVars, callbackVars, evictVars, expiryVars, poolVars, handlerVars, signatureVars, raceVars, embeddingVars, threadVars, backend>>

\* redis_cache.get_sam_logit(image_path, click_signature)
GetSamLogit ==
    /\ redis_calls < CallBudget
    /\ \E image_path \in ImageFiles, faults \in FaultChoices(backend, MaxBackendCalls) :
         LET r == get_sam_logit(redis, image_path, faults) IN
           /\ redis' = r.store
           /\ lastOp' = Record("get_sam_logit", image_path, r)
    /\ redis_calls' = redis_calls + 1
    /\ UNCHANGED <<brokerVars, lockVars, workerVars, shutdownVars, callbackVars, evictVars, expiryVars, poolVars, handlerVars, signatureVars, raceVars, embeddingVars, threadVars, backend, logit>>

\* redis_cache.set_sam_embedding(image_path, embedding_data)
SetSamEmbedding ==
    /\ redis_calls < CallBudget
    /\ \E image_path \in ImageFiles, v \in Artifacts, faults \in FaultChoices(backend, 1) :
         LET r == set_sam_embedding(redis, image_path, v, EmbeddingTtl, faults) IN
           /\ redis' = r.store
           /\ lastOp' = Record("set_sam_embedding", image_path, r)
    /\ redis_calls' = redis_calls + 1
    /\ UNCHANGED <<brokerVars, lockVars, workerVars, shutdownVars, callbackVars, evictVars, expiryVars, poolVars, handlerVars, signatureVars, raceVars, embeddingVars, threadVars, backend, logit>>

\* redis_cache.get_sam_embedding(image_path)
GetSamEmbedding ==
    /\ redis_calls < CallBudget
    /\ \E image_path \in ImageFiles, faults \in FaultChoices(backend, 1) :
         LET r == get_sam_embedding(redis, image_path, faults) IN
           /\ redis' = r.store
           /\ lastOp' = Record("get_sam_embedding", image_path, r)
    /\ redis_calls' = redis_calls + 1
    /\ UNCHANGED <<brokerVars, lockVars, workerVars, shutdownVars, callbackVars, evictVars, expiryVars, poolVars, handlerVars, signatureVars, raceVars, embeddingVars, threadVars, backend, logit>>

\* redis_cache.set_cache(key, value)
SetCache ==
    /\ redis_calls < CallBudget
    /\ \E v \in Artifacts, faults \in FaultChoices(backend, 1) :
         LET r == set_cache(redis, v, CacheTtl, faults) IN
           /\ redis' = r.store
           /\ lastOp' = Record("set_cache", None, r)
    /\ redis_calls' = redis_calls + 1
    /\ UNCHANGED <<brokerVars, lockVars, workerVars, shutdownVars, callbackVars, evictVars, expiryVars, poolVars, handlerVars, signatureVars, raceVars, embeddingVars, threadVars, backend, logit>>

\* redis_cache.get_cache(key)
GetCache ==
    /\ redis_calls < CallBudget
    /\ \E faults \in FaultChoices(backend, 1) :
         LET r == get_cache(redis, faults) IN
           /\ redis' = r.store
           /\ lastOp' = Record("get_cache", None, r)
    /\ redis_calls' = redis_calls + 1
    /\ UNCHANGED <<brokerVars, lockVars, workerVars, shutdownVars, callbackVars, evictVars, expiryVars, poolVars, handlerVars, signatureVars, raceVars, embeddingVars, threadVars, backend, logit>>

\* redis_cache.set_user_session(user_id, session_data)
SetUserSession ==
    /\ redis_calls < CallBudget
    /\ \E v \in Sessions, faults \in FaultChoices(backend, 2) :
         LET r == set_user_session(redis, v, SessionTtl, faults) IN
           /\ redis' = r.store
           /\ lastOp' = Record("set_user_session", None, r)
    /\ redis_calls' = redis_calls + 1
    /\ UNCHANGED <<brokerVars, lockVars, workerVars, shutdownVars, callbackVars, evictVars, expiryVars, poolVars, handlerVars, signatureVars, raceVars, embeddingVars, threadVars, backend, logit>>

\* redis_cache.get_user_session(user_id)
GetUserSession ==
    /\ redis_calls < CallBudget
    /\ \E faults \in FaultChoices(backend, 1) :
         LET r == get_user_session(redis, faults) IN
           /\ redis' = r.store
           /\ lastOp' = Record("get_user_session", None, r)
    /\ redis_calls' = redis_calls + 1
    /\ UNCHANGED <<brokerVars, lockVars, workerVars, shutdownVars, callbackVars, evictVars, expiryVars, poolVars, handlerVars, signatureVars, raceVars, embeddingVars, threadVars, backend, logit>>

\* redis_cache.cleanup_expired_chunks()
CleanupExpiredChunks ==
    /\ redis_calls < CallBudget
    /\ \E expired \in SUBSET InfoKeys, faults \in FaultChoices(backend, 2) :
         LET r == cleanup_expired_chunks(redis, expired, faults) IN
           /\ redis' = r.store
           /\ lastOp' = Record("cleanup_expired_chunks", None, r)
           /\ logit' = [logit EXCEPT !.lost = @ \cup {k \in LogitKeys :
                                                        /\ redis[k].value # <<>>
                                                        /\ r.store[k].value = <<>>}]
    /\ redis_calls' = redis_calls + 1
    /\ UNCHANGED <<brokerVars, lockVars, workerVars, shutdownVars, callbackVars, evictVars, expiryVars, poolVars, handlerVars, signatureVars, raceVars, embeddingVars, threadVars, backend>>

\* The backend drops a key: its TTL ran out, or another client deleted it.
KeyLost ==
    /\ \E k \in RedisKeys :
         /\ redis[k].value # <<>>
         /\ redis' = [redis EXCEPT ![k] = Absent]
         /\ logit' = [logit EXCEPT !.lost = @ \cup ({k} \cap LogitKeys)]
         /\ lastOp' = [NoOp EXCEPT !.op = "key_lost", !.deleted = {k}]
    /\ UNCHANGED <<brokerVars, lockVars, workerVars, shutdownVars, callbackVars, evictVars, expiryVars, poolVars, handlerVars, signatureVars, raceVars, embeddingVars, threadVars, backend, redis_calls>>

NextRedis ==
    \/ SetSamLogit
    \/ GetSamLogit
    \/ SetSamEmbedding
    \/ GetSamEmbedding
    \/ SetCache
    \/ GetCache
    \/ SetUserSession
    \/ GetUserSession
    \/ CleanupExpiredChunks
    \/ KeyLost

\* The distributed cache on a backend that answers every call
SpecRedis == Init /\ [][NextRedis]_vars

\* The distributed cache on a backend whose calls may raise
SpecRedisUnreliable == InitUnreliable /\ [][NextRedis]_vars


\* ------------------------------------------- claims on the distributed cache
\* The last call was a get_sam_logit on the key of the last set_sam_logit.
ReadLogit == lastOp.op = "get_sam_logit" /\ lastOp.image_path = "page.png"

\* C16: decode(encode(v)) = v for every value, and a get_sam_logit that
\* follows a set_sam_logit(v) on the same key, with none of the key's entries
\* lost in between, returns v.
C16_RoundTrip ==
    /\ \A v \in Values :
         LET d == _deserialize_with_compression(_serialize_with_compression(v)) IN
           ~d.raised /\ d.value = v
    /\ (ReadLogit /\ logit.value # <<>> /\ logit.lost = {})
         => (lastOp.hit /\ lastOp.value = logit.value)

\* C17: once a chunk of the chunked entry last written is gone, a read of
\* that entry is a miss.
C17_MissingChunkIsMiss ==
    (/\ ReadLogit
     /\ logit.chunked
     /\ \E i \in 0..(logit.num_chunks - 1) : ChunkKey(LogitBase, i) \in logit.lost)
      => ~lastOp.hit

\* C18: no set writes more than MAX_VALUE_SIZE bytes under one key, and no
\* chunk is longer than the chunk size.
C18_NoLargeValue ==
    \A w \in lastOp.writes :
      /\ w[2] <= MAX_VALUE_SIZE
      /\ w[1] \in ChunkKeys => w[2] <= LOGIT_CHUNK_SIZE

\* C20: after cleanup_expired_chunks no chunk is left whose manifest is
\* gone, and nothing of an entry whose manifest is there has been deleted.
C20_CleanupRemovesOrphans ==
    lastOp.op = "cleanup_expired_chunks"
      => /\ \A x \in ChunkKeys :
              redis[x].value # <<>> => redis[InfoKey(x[1])].value # <<>>
         /\ \A x \in lastOp.deleted : redis[InfoKey(x[1])].value = <<>>


\* ------------------------------------------------ claims on backend errors
IsGet ==
    lastOp.op \in {"get_sam_embedding", "get_sam_logit", "get_user_session", "get_cache"}

IsSet ==
    lastOp.op \in {"set_sam_embedding", "set_sam_logit", "set_user_session", "set_cache"}

C21_LastWriteWins ==
    (ReadLogit /\ logit.value # <<>> /\ logit.lost = {} /\ ~lastOp.failed)
      => (lastOp.hit /\ lastOp.value = logit.value)


\* ------------------------------------- set_sam_logit racing get_sam_logit
\* A thread calls set_sam_logit(image_path, click_signature, logit): the
\* value is framed, and chunked when it is larger than MAX_VALUE_SIZE.
SetCall ==
    /\ writer.pc = "idle"
    /\ writer.calls < MaxRaceSets
    /\ \E v \in Values :
         LET serialized_data == _serialize_with_compression(v) IN
           /\ writer' = [pc |-> IF Len(serialized_data) > MAX_VALUE_SIZE
                                THEN "info" ELSE "plain",
                         value |-> v, data |-> serialized_data, i |-> 0,
                         calls |-> writer.calls + 1]
           /\ written' = written \cup {v}
    /\ UNCHANGED <<brokerVars, lockVars, workerVars, shutdownVars, callbackVars, evictVars, expiryVars, poolVars, handlerVars, signatureVars, embeddingVars, threadVars, redisVars, reader>>

\* _split_large_data: setex of the manifest
SetInfo ==
    /\ writer.pc = "info"
    /\ LET data_size == Len(writer.data)
           num_chunks == (data_size + LOGIT_CHUNK_SIZE - 1) \div LOGIT_CHUNK_SIZE
       IN redis' = setex(redis, InfoKey(LogitBase), LogitTtl,
                         chunk_info_dumps(num_chunks, data_size))
    /\ deadline' = [deadline EXCEPT ![InfoKey(LogitBase)] = redis_now + LogitTtl]
    /\ writer' = [writer EXCEPT !.pc = "chunk", !.i = 0]
    /\ UNCHANGED <<brokerVars, lockVars, workerVars, shutdownVars, callbackVars, evictVars, redis_now, poolVars, handlerVars, signatureVars, embeddingVars, threadVars, backend, redis_calls, lastOp,
                   logit, reader, written>>

\* _split_large_data: setex of chunk i; after the last one set_sam_logit returns
SetChunk ==
    /\ writer.pc = "chunk"
    /\ LET data_size == Len(writer.data)
           num_chunks == (data_size + LOGIT_CHUNK_SIZE - 1) \div LOGIT_CHUNK_SIZE
       IN /\ redis' = setex(redis, ChunkKey(LogitBase, writer.i), ChunkTtl(LogitTtl),
                            Chunk(writer.data, writer.i))
          /\ deadline' = [deadline EXCEPT ![ChunkKey(LogitBase, writer.i)] =
                                              redis_now + ChunkTtl(LogitTtl)]
          /\ writer' = [writer EXCEPT !.i = @ + 1,
                                      !.pc = IF writer.i + 1 = num_chunks
                                             THEN "idle" ELSE "chunk"]
    /\ UNCHANGED <<brokerVars, lockVars, workerVars, shutdownVars, callbackVars, evictVars, redis_now, poolVars, handlerVars, signatureVars, embeddingVars, threadVars, backend, redis_calls, lastOp,
                   logit, reader, written>>

\* set_sam_logit: setex of the whole value under the key itself
SetPlain ==
    /\ writer.pc = "plain"
    /\ redis' = setex(redis, PlainKey(LogitBase), LogitTtl, writer.data)
    /\ deadline' = [deadline EXCEPT ![PlainKey(LogitBase)] = redis_now + LogitTtl]
    /\ writer' = [writer EXCEPT !.pc = "idle"]
    /\ UNCHANGED <<brokerVars, lockVars, workerVars, shutdownVars, callbackVars, evictVars, redis_now, poolVars, handlerVars, signatureVars, embeddingVars, threadVars, backend, redis_calls, lastOp,
                   logit, reader, written>>

\* Another thread calls get_sam_logit(image_path, click_signature)
GetCall ==
    /\ reader.pc = "idle"
    /\ reader.calls < MaxRaceGets
    /\ reader' = [NoReader EXCEPT !.pc = "info", !.calls = reader.calls + 1]
    /\ UNCHANGED <<brokerVars, lockVars, workerVars, shutdownVars, callbackVars, evictVars, expiryVars, poolVars, handlerVars, signatureVars, embeddingVars, threadVars, redisVars, writer, written>>

\* _get_large_data: get of the manifest; without one the key itself is read
GetInfo ==
    /\ reader.pc = "info"
    /\ LET info_data == redis[InfoKey(LogitBase)].value
           loaded == chunk_info_loads(info_data)
       IN reader' = IF info_data = <<>> \/ loaded.raised \/ loaded.num_chunks = 0
                    THEN [reader EXCEPT !.pc = "plain"]
                    ELSE [reader EXCEPT !.pc = "chunk", !.num_chunks = loaded.num_chunks,
                                        !.i = 0, !.chunks = <<>>]
    /\ UNCHANGED <<brokerVars, lockVars, workerVars, shutdownVars, callbackVars, evictVars, expiryVars, poolVars, handlerVars, signatureVars, embeddingVars, threadVars, redisVars, writer, written>>

\* _get_large_data: get of chunk i; a missing chunk makes it return None and
\* the key itself is read; after the last chunk the joined bytes are decoded
\* and get_sam_logit returns
GetChunk ==
    /\ reader.pc = "chunk"
    /\ LET chunk_data == redis[ChunkKey(LogitBase, reader.i)].value
           chunks == reader.chunks \o chunk_data
       IN reader' = IF chunk_data = <<>>
                    THEN [reader EXCEPT !.pc = "plain"]
                    ELSE IF reader.i + 1 = reader.num_chunks
                    THEN Returned([reader EXCEPT !.chunks = chunks], chunks)
                    ELSE [reader EXCEPT !.i = @ + 1, !.chunks = chunks]
    /\ UNCHANGED <<brokerVars, lockVars, workerVars, shutdownVars, callbackVars, evictVars, expiryVars, poolVars, handlerVars, signatureVars, embeddingVars, threadVars, redisVars, writer, written>>

\* get_sam_logit: get of the key itself, decoded and returned
GetPlain ==
    /\ reader.pc = "plain"
    /\ reader' = Returned(reader, redis[PlainKey(LogitBase)].value)
    /\ UNCHANGED <<brokerVars, lockVars, workerVars, shutdownVars, callbackVars, evictVars, expiryVars, poolVars, handlerVars, signatureVars, embeddingVars, threadVars, redisVars, writer, written>>

NextRace ==
    \/ SetCall
    \/ SetInfo
    \/ SetChunk
    \/ SetPlain
    \/ GetCall
    \/ GetInfo
    \/ GetChunk
    \/ GetPlain

\* The distributed cache with a writer and a reader of one key interleaved
SpecRace == Init /\ [][NextRace]_vars

\* C22: a get_sam_logit running concurrently with set_sam_logit calls on the
\* same key returns a miss or a value that was passed in full to one of the
\* sets, never bytes assembled from the chunks of two writes.
C22_ChunksReadAtomically ==
    (reader.returned /\ reader.hit) => reader.value \in written


\* ------------------------------------------------------ fingerprint calls
\* Two click lists are fingerprinted with generate_click_signature
GenerateClickSignature ==
    /\ lastSignature.fn = None
    /\ \E clicks1 \in ClickLists, clicks2 \in ClickLists :
         lastSignature' = [fn |-> "generate_click_signature",
                           clicks1 |-> clicks1, clicks2 |-> clicks2,
                           sig1 |-> generate_click_signature(clicks1, grid_size),
                           sig2 |-> generate_click_signature(clicks2, grid_size)]
    /\ UNCHANGED <<brokerVars, lockVars, workerVars, shutdownVars, callbackVars, evictVars, expiryVars, poolVars, handlerVars, embeddingVars, threadVars, redisVars, raceVars>>

\* Two click lists are fingerprinted with generate_click_signature_full
GenerateClickSignatureFull ==
    /\ lastSignature.fn = None
    /\ \E clicks1 \in ClickLists, clicks2 \in ClickLists :
         lastSignature' = [fn |-> "generate_click_signature_full",
                           clicks1 |-> clicks1, clicks2 |-> clicks2,
                           sig1 |-> generate_click_signature_full(clicks1, grid_size),
                           sig2 |-> generate_click_signature_full(clicks2, grid_size)]
    /\ UNCHANGED <<brokerVars, lockVars, workerVars, shutdownVars, callbackVars, evictVars, expiryVars, poolVars, handlerVars, embeddingVars, threadVars, redisVars, raceVars>>

NextSignature ==
    \/ GenerateClickSignature
    \/ GenerateClickSignatureFull

\* The fingerprint functions applied to pairs of click lists
SpecSignature == Init /\ [][NextSignature]_vars

\* ------------------------------------------------ claims on the fingerprint
Fingerprinted == lastSignature.fn # None
SameShape ==
    /\ Len(lastSignature.clicks1) = Len(lastSignature.clicks2)
    /\ \A i \in 1..Len(lastSignature.clicks1) :
         lastSignature.clicks1[i].clickType = lastSignature.clicks2[i].clickType

\* twice the value of a coordinate, and the distance of two coordinates
Twice(v) == 2 * v.n + (IF v.float THEN 1 ELSE 0)
Abs(n) == IF n < 0 THEN -n ELSE n
CloserThanHalfGrid(v, w) == Abs(Twice(v) - Twice(w)) < grid_size
SameCell(v, w) == v.n \div grid_size = w.n \div grid_size

SameCells ==
    \A i \in 1..Len(lastSignature.clicks1) :
      /\ SameCell(lastSignature.clicks1[i].x, lastSignature.clicks2[i].x)
      /\ SameCell(lastSignature.clicks1[i].y, lastSignature.clicks2[i].y)
      /\ lastSignature.clicks1[i].x.float = lastSignature.clicks2[i].x.float
      /\ lastSignature.clicks1[i].y.float = lastSignature.clicks2[i].y.float

Count(clicks, c) == Cardinality({i \in 1..Len(clicks) : clicks[i] = c})
IsPermutation(clicks1, clicks2) ==
    /\ Len(clicks1) = Len(clicks2)
    /\ \A c \in Clicks : Count(clicks1, c) = Count(clicks2, c)

\* C24: a click list and every permutation of it have the same signature,
\* from generate_click_signature and from generate_click_signature_full.
C24_PermutationInvariant ==
    (Fingerprinted /\ IsPermutation(lastSignature.clicks1, lastSignature.clicks2))
      => lastSignature.sig1 = lastSignature.sig2

\* The quantized triple of a click as a triple of numbers, and the number of
\* clicks of a list that have it
QuantizedTriple(c) ==
    <<Quantize(c.x, grid_size).n, Quantize(c.y, grid_size).n, c.clickType>>
CountTriple(clicks, t) ==
    Cardinality({i \in 1..Len(clicks) : QuantizedTriple(clicks[i]) = t})
SameQuantizedMultiset(clicks1, clicks2) ==
    /\ Len(clicks1) = Len(clicks2)
    /\ \A c \in Clicks :
         CountTriple(clicks1, QuantizedTriple(c)) = CountTriple(clicks2, QuantizedTriple(c))

\* C25: two click lists have equal fingerprints exactly when their multisets
\* of quantized triples are equal, and the empty list has the digest of the
\* empty string.
C25_SignatureIsQuantizedMultiset ==
    Fingerprinted
      => /\ (lastSignature.sig1 = lastSignature.sig2)
              <=> SameQuantizedMultiset(lastSignature.clicks1, lastSignature.clicks2)
         /\ lastSignature.clicks1 = <<>> => lastSignature.sig1.md5 = ""


\* --------------------------------------------------- SEGMENT message handling
\* MessageHandlers.handle_sam_segment_message(message) on one worker, from
\* the fingerprint of the clicks to the logit written to the distributed
\* cache; loading the image, computing its embedding or predicting may raise.
HandleSamSegmentMessage ==
    /\ clock < MaxHandled
    /\ \E image_path \in SegmentImages, clicks \in SegmentClickLists,
          outcome \in SegmentOutcomes, logit_value \in Artifacts :
         LET click_signature == generate_click_signature_full(clicks, grid_size)
             e == _get_or_compute_embedding(embedding_cache, processing_stats, files,
                                            image_path, clock + 1, outcome)
             got == e.embedding # NoHash
             predicted == got /\ outcome # "predict_raises"
         IN /\ embedding_cache' = e.cache
            /\ current_image_path' = IF got THEN image_path ELSE current_image_path
            /\ features' = IF got THEN e.embedding ELSE features
            /\ processing_stats' = IF predicted
                                   THEN [e.stats EXCEPT !.sam_processed = @ + 1]
                                   ELSE e.stats
            /\ redis' = IF predicted
                        THEN set_sam_logit(redis, image_path, logit_value, LogitTtl, {}).store
                        ELSE redis
            /\ handled' = (IF Len(handled) = 2 THEN Tail(handled) ELSE handled)
                            \o <<[image_path |-> image_path,
                                  image_hash |-> handlers_get_image_hash(files, image_path),
                                  clicks |-> clicks,
                                  click_signature |-> click_signature,
                                  cache_hit |-> e.hit,
                                  computed |-> e.computed,
                                  stored |-> got /\ ~e.hit,
                                  raised |-> ~predicted]>>
    /\ clock' = clock + 1
    /\ UNCHANGED <<lockVars, workerVars, shutdownVars, callbackVars, evictVars, brokerVars, expiryVars, poolVars, embeddingVars, threadVars, raceVars, signatureVars,
                   backend, redis_calls, lastOp, logit, files>>

\* An image file is written again: its mtime changes
ImageModified ==
    /\ \E f \in SegmentImages :
         /\ files[f] # NoFile
         /\ files[f] < MaxModified
         /\ files' = [files EXCEPT ![f] = @ + 1]
    /\ UNCHANGED <<brokerVars, lockVars, workerVars, shutdownVars, callbackVars, evictVars, expiryVars, poolVars, embeddingVars, threadVars, redisVars, raceVars,
                   signatureVars, embedding_cache, processing_stats, current_image_path,
                   features, clock, handled>>

NextHandlers ==
    \/ HandleSamSegmentMessage
    \/ ImageModified

\* One worker handling SEGMENT messages one after the other
SpecHandlers == Init /\ [][NextHandlers]_vars

\* ----------------------------------------------- claims on SEGMENT handling
\* Two messages for the same unchanged image were handled one after the
\* other, the first missed the cache and its compute step did not raise.
TwoForOneImage ==
    /\ Len(handled) = 2
    /\ handled[1].image_hash = handled[2].image_hash
    /\ ~handled[1].cache_hit
    /\ handled[1].stored

\* C26: of two SEGMENT messages for one unchanged image handled one after the
\* other, the first misses the cache, computes the embedding once and stores
\* it, the second hits the cache and computes nothing; and when their click
\* lists quantize to the same grid cells both use the same fingerprint.
C26_SecondHandlingHits ==
    TwoForOneImage
      => /\ handled[1].computed
         /\ handled[2].cache_hit
         /\ ~handled[2].computed
         /\ SameQuantizedMultiset(handled[1].clicks, handled[2].clicks)
              => handled[1].click_signature = handled[2].click_signature


\* ------------------------------------------------------------ user sessions
\* redis_cache.update_user_session_field(user_id, field, value)
UpdateUserSessionField ==
    /\ redis_calls < CallBudget
    /\ \E v \in Sessions, faults \in FaultChoices(backend, 1) :
         LET r == update_user_session_field(redis, v, faults) IN
           /\ redis' = r.store
           /\ lastOp' = Record("update_user_session_field", None, r)
    /\ redis_calls' = redis_calls + 1
    /\ UNCHANGED <<brokerVars, lockVars, workerVars, shutdownVars, callbackVars, evictVars, expiryVars, poolVars, handlerVars, signatureVars, raceVars, embeddingVars, threadVars, backend, logit>>

\* Half of the session lifetime passes on the backend: the remaining TTL of
\* the session key shrinks, and the backend drops the key when it runs out. A
\* key without a TTL stays as it is.
SessionAges ==
    /\ redis[PlainKey(SessionBase)].value # <<>>
    /\ redis[PlainKey(SessionBase)].ttl > 0
    /\ LET key == PlainKey(SessionBase)
           remaining == redis[key].ttl - SessionTtl \div 2
       IN IF remaining > 0
          THEN /\ redis' = [redis EXCEPT ![key].ttl = remaining]
               /\ lastOp' = [NoOp EXCEPT !.op = "session_ages"]
          ELSE /\ redis' = [redis EXCEPT ![key] = Absent]
               /\ lastOp' = [NoOp EXCEPT !.op = "session_expires", !.deleted = {key}]
    /\ UNCHANGED <<brokerVars, lockVars, workerVars, shutdownVars, callbackVars, evictVars, expiryVars, poolVars, handlerVars, signatureVars, raceVars, embeddingVars, threadVars, backend, redis_calls, logit>>

NextSession ==
    \/ SetUserSession
    \/ UpdateUserSessionField
    \/ GetUserSession
    \/ SessionAges

\* The session methods, on a backend that answers every call and on one
\* whose calls may raise
InitSession ==
    /\ BrokerInit /\ EmbeddingInit /\ ThreadInit /\ RedisInit /\ RaceInit
    /\ SignatureInit /\ HandlerInit /\ PoolInit /\ ExpiryInit /\ EvictInit /\ CallbackInit /\ ShutdownInit /\ WorkerInit /\ LockInit
    /\ backend \in {"reliable", "unreliable"}

SpecSession == InitSession /\ [][NextSession]_vars

\* C27: every user:session key the backend holds carries a TTL, whatever
\* set_user_session and update_user_session_field calls came before, an
\* update after the session expired and a set whose expire call raised
\* included.
C27_SessionKeysCarryTtl ==
    redis[PlainKey(SessionBase)].value # <<>> => redis[PlainKey(SessionBase)].ttl > 0


\* ------------------------------------------------------- claims on retries
FrameFields ==
    {"message_id", "message_type", "user_id", "project_id", "payload", "priority",
     "max_retries", "created_at"}
\* delayed_send called send_message for a retry and the broker accepts sends
RetryPublishAttempted ==
    lastSend.called /\ lastSend.by = "retry" /\ lastSend.broker_result = "ok"
\* The message a retry hands to send_message is the failed delivery with
\* retry_count one greater.
RetryTaskKeepsFields ==
    (lastSend.called /\ lastSend.by = "retry") =>
        /\ \A f \in FrameFields : WireOf(lastSend.message)[f] = lastHandle.mq_message.body[f]
        /\ lastSend.message.retry_count = lastHandle.mq_message.body.retry_count + 1

\* C28: a retry publish puts on the topic a message with the message_id,
\* message_type, user_id, project_id, payload, priority, max_retries and
\* created_at of the delivery that failed and a retry_count one greater.
C28_RetryPublishKeepsFields ==
    RetryPublishAttempted =>
        /\ Len(lastSend.published) = 1
        /\ \A f \in FrameFields :
              lastSend.published[1].body[f] = lastHandle.mq_message.body[f]
        /\ lastSend.published[1].body.retry_count = lastHandle.mq_message.body.retry_count + 1

\* C29: the delay of every scheduled retry is min(300, 10 * 2^r) with r the
\* retry_count after the increment made for it, so it is at most 300; and
\* the delay for a retry_count is never below the delay for the one before.
C29_DelayFromIncrementedCount ==
    /\ \A i \in DOMAIN executor :
          LET r == executor[i].message.retry_count IN
            /\ r >= 1
            /\ executor[i].delay = Min(300, 10 * Pow2(r))
            /\ executor[i].delay <= 300
            /\ executor[i].delay >= Min(300, 10 * Pow2(r - 1))
    /\ lastHandle.path = "retry" =>
          /\ Len(lastHandle.retry) = 1
          /\ lastHandle.retry[1].message.retry_count =
                lastHandle.mq_message.body.retry_count + 1
          /\ lastHandle.retry[1].delay =
                Min(300, 10 * Pow2(lastHandle.mq_message.body.retry_count + 1))
    /\ \A r \in 1..MaxRetries : RetryDelay(r) <= RetryDelay(r + 1) /\ RetryDelay(r) <= 300

\* The first failure of a message published with retry_count 0: its retry
\* waits with retry_count 1 and a delay of 20 seconds.
C29_Witness ==
    /\ lastHandle.path = "retry"
    /\ lastHandle.mq_message.body.retry_count = 0
    /\ \E i \in DOMAIN executor :
          /\ executor[i].message.message_id = lastHandle.mq_message.body.message_id
          /\ executor[i].message.retry_count = 1
          /\ executor[i].delay = 20


\* ------------------------------------------------------------ retry pool
\* _handle_message on a first delivery (retry_count 0, max_retries 3) whose
\* handler raised, on a consumer that is not shut down: retry_count += 1 and
\* _retry_message, which submits delayed_send
\* to the executor. busy records whether all workers were asleep at that
\* moment and finished_before, if they were, how many tasks had ended by then.
RetryScheduled ==
    /\ scheduled < MaxScheduled
    /\ shutting_down = "running"
    /\ \E priority \in {2} :
         LET parsed == ParseBody(WireBody(scheduled + 1, "SAM_SEGMENT", priority, 3, 0))
             task == _retry_message([parsed.message EXCEPT !.retry_count = @ + 1])[1]
         IN pool' = Append(pool, [retry_count |-> task.message.retry_count,
                                  delay |-> task.delay, state |-> task.state,
                                  started |-> NotStarted,
                                  busy |-> ~WorkerFree(pool),
                                  finished_before |-> IF WorkerFree(pool) THEN 0
                                                      ELSE finished])
    /\ scheduled' = scheduled + 1
    /\ UNCHANGED <<pool_now, finished, lastWake>>
    /\ UNCHANGED <<lockVars, workerVars, shutdownVars, callbackVars, evictVars, brokerVars, expiryVars, embeddingVars, threadVars, redisVars, raceVars, signatureVars,
                   handlerVars>>

\* A free worker of the executor takes the oldest submitted task:
\* delayed_send starts and calls time.sleep(delay).
PoolWorkerStart ==
    /\ \E i \in DOMAIN pool :
         /\ pool[i].state = "queued"
         /\ \A j \in 1..(i - 1) : pool[j].state = "sleeping"
         /\ WorkerFree(pool)
         /\ pool' = [pool EXCEPT ![i].state = "sleeping", ![i].started = pool_now]
    /\ UNCHANGED <<pool_now, scheduled, finished, lastWake>>
    /\ UNCHANGED <<lockVars, workerVars, shutdownVars, callbackVars, evictVars, brokerVars, expiryVars, embeddingVars, threadVars, redisVars, raceVars, signatureVars,
                   handlerVars>>

\* Time passes.
PoolTick ==
    /\ pool_now < MaxTicks * TickSeconds
    /\ pool_now' = pool_now + TickSeconds
    /\ UNCHANGED <<pool, scheduled, finished, lastWake>>
    /\ UNCHANGED <<lockVars, workerVars, shutdownVars, callbackVars, evictVars, brokerVars, expiryVars, embeddingVars, threadVars, redisVars, raceVars, signatureVars,
                   handlerVars>>

\* time.sleep(delay) returns once delay seconds have passed; delayed_send then
\* calls send_message and ends, whether send_message raised or not, and its
\* worker is free again.
SleepEnds ==
    /\ \E i \in DOMAIN pool :
         /\ pool[i].state = "sleeping"
         /\ pool_now >= pool[i].started + pool[i].delay
         /\ lastWake' = [called |-> TRUE, busy |-> pool[i].busy,
                         delay |-> pool[i].delay, started |-> pool[i].started,
                         at |-> pool_now]
         /\ pool' = RemoveAt(pool, i)
    /\ finished' = finished + 1
    /\ UNCHANGED <<pool_now, scheduled>>
    /\ UNCHANGED <<lockVars, workerVars, shutdownVars, callbackVars, evictVars, brokerVars, expiryVars, embeddingVars, threadVars, redisVars, raceVars, signatureVars,
                   handlerVars>>

NextPool ==
    \/ RetryScheduled
    \/ PoolWorkerStart
    \/ PoolTick
    \/ SleepEnds

\* The executor under a run of failing deliveries
SpecPool == Init /\ [][NextPool]_vars

Sleeping == {i \in DOMAIN pool : pool[i].state = "sleeping"}

\* C30: at most 10 retries are within their delay at any time; a retry
\* scheduled while all 10 workers were busy is within its delay only after a
\* task ended and freed a worker; and the sleep of a retry ends, and its
\* send_message is called, no earlier than its delay after the sleep began.
C30_RetryHoldsWorkerForDelay ==
    /\ Cardinality(Sleeping) <= 10
    /\ \A i \in Sleeping :
          pool[i].busy => finished > pool[i].finished_before
    /\ \A i \in DOMAIN pool :
          pool[i].state = "queued" => pool[i].started = NotStarted
    /\ lastWake.called =>
          /\ lastWake.started # NotStarted
          /\ lastWake.at - lastWake.started >= lastWake.delay
          /\ lastWake.delay >= 20

\* The eleventh retry, scheduled while all ten workers were busy, sleeps:
\* one of the first ten ended after its whole delay and freed its worker.
C30_Witness ==
    /\ scheduled = 11
    /\ lastWake.called
    /\ lastWake.at - lastWake.started >= 20
    /\ \E i \in Sleeping :
          /\ pool[i].busy
          /\ pool[i].started >= 20


\* ------------------------------------------------------------- key expiry
\* Half a logit TTL passes on the backend, which drops every key whose
\* deadline has come.
TimePasses ==
    /\ redis_now < MaxExpiryTicks * (LogitTtl \div 2)
    /\ LET later == redis_now + LogitTtl \div 2
           expired == {k \in RedisKeys : deadline[k] # NoDeadline /\ deadline[k] <= later}
       IN /\ redis_now' = later
          /\ redis' = [k \in RedisKeys |-> IF k \in expired THEN Absent ELSE redis[k]]
          /\ deadline' = [k \in RedisKeys |-> IF k \in expired THEN NoDeadline
                                              ELSE deadline[k]]
    /\ UNCHANGED <<brokerVars, lockVars, workerVars, shutdownVars, callbackVars, evictVars, poolVars, handlerVars, signatureVars, embeddingVars,
                   threadVars, backend, redis_calls, lastOp, logit, raceVars>>

NextExpiry ==
    \/ SetCall
    \/ SetInfo
    \/ SetChunk
    \/ SetPlain
    \/ TimePasses

\* set_sam_logit calls, one backend call at a time, while time passes
SpecExpiry == Init /\ [][NextExpiry]_vars

Live(k) == redis[k].value # <<>>
ManifestChunks ==
    {ChunkKey(LogitBase, i) : i \in 0..(chunk_info_loads(redis[InfoKey(LogitBase)].value).num_chunks - 1)}

\* C31: once a set has completed and no other is in progress, whenever the
\* manifest key is live every chunk key it references is live: TTL expiry
\* never removes a chunk before its manifest.
C31_ManifestNeverOutlivesChunk ==
    (writer.pc = "idle" /\ Live(InfoKey(LogitBase))) =>
        /\ ManifestChunks # {}
        /\ \A k \in ManifestChunks :
              /\ Live(k)
              /\ deadline[k] >= deadline[InfoKey(LogitBase)]

\* A chunked set completed, time has passed since, and its manifest is live.
C31_Witness ==
    /\ writer.pc = "idle"
    /\ writer.calls >= 1
    /\ Len(writer.data) > MAX_VALUE_SIZE
    /\ Live(InfoKey(LogitBase))
    /\ redis_now >= deadline[InfoKey(LogitBase)] - LogitTtl \div 2
    /\ redis_now > 0


\* ------------------------------------- claims on the running byte count
RECURSIVE SumSizeFields(_)
SumSizeFields(seq) ==
    IF seq = <<>> THEN 0 ELSE Head(seq).size + SumSizeFields(Tail(seq))

\* C33: after every put, get, remove, clear and eviction the running total
\* current_memory_bytes is the sum of the size fields of the entries held,
\* and it is never negative.
C33_RunningTotalIsSumOfSizes ==
    /\ current_memory_bytes = SumSizeFields(cache)
    /\ current_memory_bytes >= 0


\* ------------------------------------------------------- the eviction loop
\* put calls self._evict_if_needed(embedding_size) on a cache built with
\* EmbeddingCache(max_cache_size, max_memory_mb) that holds some entries.
EvictCall ==
    /\ evict.pc = "idle"
    /\ \E c \in EvictCaches, embedding \in Embeddings \cup {NoEmbedding},
          count_budget \in 0..MaxCountBudget, memory_budget \in {0, max_memory_bytes} :
         evict' = [NoEvict EXCEPT !.pc = "loop", !.cache = c,
                                  !.current_memory_bytes = SumSizeFields(c),
                                  !.new_embedding_size = _estimate_embedding_size(embedding),
                                  !.max_cache_size = count_budget,
                                  !.max_memory_bytes = memory_budget,
                                  !.initial_len = Len(c)]
    /\ UNCHANGED <<brokerVars, lockVars, workerVars, shutdownVars, callbackVars, expiryVars, poolVars, handlerVars, signatureVars, raceVars,
                   redisVars, threadVars, embeddingVars>>

\* The while test and, when it holds, one pass through the body
EvictStep ==
    /\ evict.pc = "loop"
    /\ evict' = IF LoopTest(evict) THEN LoopBody(evict) ELSE [evict EXCEPT !.pc = "done"]
    /\ UNCHANGED <<brokerVars, lockVars, workerVars, shutdownVars, callbackVars, expiryVars, poolVars, handlerVars, signatureVars, raceVars,
                   redisVars, threadVars, embeddingVars>>

NextEvict ==
    \/ EvictCall
    \/ EvictStep

\* The thread in _evict_if_needed keeps running
SpecEvict == Init /\ [][NextEvict]_vars /\ WF_vars(EvictStep)

\* C32: the eviction loop ends for every cache state, new-entry size and
\* budgets, a new entry larger than the memory budget and a count budget of 0
\* included; it pops only entries that were held, and when it ends with the
\* budget still exceeded the cache is empty.
C32_EvictionLoopTerminates ==
    /\ [](evict.evictions + Len(evict.cache) = evict.initial_len)
    /\ []((evict.pc = "done" /\ LoopTest(evict)) => (evict.cache = <<>> /\ evict.broke))
    /\ (evict.pc = "loop") ~> (evict.pc = "done")

\* The loop has emptied a cache of two entries for a new entry that is larger
\* than the whole memory budget, and has ended.
C32_Witness ==
    /\ evict.pc = "done"
    /\ evict.broke
    /\ evict.initial_len = 2
    /\ evict.evictions = 2
    /\ evict.max_memory_bytes > 0
    /\ evict.new_embedding_size > evict.max_memory_bytes

\* The loop has ended at once on a cache built with a count budget of 0.
CountBudgetZeroEnded ==
    evict.pc = "done" /\ evict.broke /\ evict.max_cache_size = 0 /\ evict.evictions = 0


\* ------------------------------------------------ claims on the counters
\* What the last _handle_message call added to the two counters, by its path
CountedByRule ==
    lastHandle.called =>
        /\ lastHandle.path = "handled" =>
              lastHandle.messages_consumed = 1 /\ lastHandle.messages_failed = 0
        /\ lastHandle.path \in {"retry", "dead_letter"} =>
              lastHandle.messages_consumed = 0 /\ lastHandle.messages_failed = 1
        /\ lastHandle.path \in {"type_mismatch", "no_handler", "parse_error"} =>
              lastHandle.messages_consumed = 0 /\ lastHandle.messages_failed = 0
        /\ lastHandle.messages_consumed + lastHandle.messages_failed =
              (IF lastHandle.handler = "not_called" THEN 0 ELSE 1)
\* A step changes the two counters only as a _handle_message call that
\* invoked the handler: by one in all, for the call lastHandle records.
CountersStep ==
    LET total == stats.messages_consumed + stats.messages_failed
        total_after == stats'.messages_consumed + stats'.messages_failed
    IN  \/ /\ stats'.messages_consumed = stats.messages_consumed
           /\ stats'.messages_failed = stats.messages_failed
           /\ (lastHandle' # lastHandle /\ lastHandle'.called) =>
                 lastHandle'.handler = "not_called"
        \/ /\ lastHandle'.called
           /\ lastHandle'.handler # "not_called"
           /\ total_after = total + 1
           /\ stats'.messages_consumed =
                 stats.messages_consumed + (IF lastHandle'.handler = "returned" THEN 1 ELSE 0)
           /\ stats'.messages_failed =
                 stats.messages_failed + (IF lastHandle'.handler = "raised" THEN 1 ELSE 0)

HandlerEnds(th) ==
    /\ callbacks[th].pc = "idle"
    /\ callbacks[th].calls < MaxCallbacks
    /\ \E handler \in {"returned", "raised"} :
         LET counted == handler_counters(handler) IN
           /\ callbacks' = [callbacks EXCEPT
                              ![th].pc = "load",
                              ![th].calls = @ + 1,
                              ![th].counter = IF counted.messages_consumed = 1
                                              THEN "messages_consumed"
                                              ELSE "messages_failed"]
           /\ handler_ends' = [handler_ends EXCEPT ![handler] = @ + 1]
    /\ UNCHANGED <<brokerVars, lockVars, workerVars, shutdownVars, evictVars, expiryVars, poolVars, handlerVars, signatureVars,
                   raceVars, redisVars, threadVars, embeddingVars>>

\* self.stats[counter] += 1, first half: the value is read (no lock is held)
CounterLoad(th) ==
    /\ callbacks[th].pc = "load"
    /\ callbacks' = [callbacks EXCEPT ![th].pc = "store",
                                      ![th].loaded = stats[callbacks[th].counter]]
    /\ UNCHANGED <<brokerVars, lockVars, workerVars, shutdownVars, evictVars, expiryVars, poolVars, handlerVars, signatureVars,
                   raceVars, redisVars, threadVars, embeddingVars, handler_ends>>

\* self.stats[counter] += 1, second half: the value read plus one is stored
CounterStore(th) ==
    /\ callbacks[th].pc = "store"
    /\ stats' = [stats EXCEPT ![callbacks[th].counter] = callbacks[th].loaded + 1]
    /\ callbacks' = [callbacks EXCEPT ![th].pc = "idle", ![th].loaded = 0]
    /\ UNCHANGED <<server, startup_error, manager, producer, consumers, message_handlers,
                   executor, broker, dlq, published, lastSend, lastHandle, track>>
    /\ UNCHANGED <<lockVars, workerVars, shutdownVars, evictVars, expiryVars, poolVars, handlerVars, signatureVars,
                   raceVars, redisVars, threadVars, embeddingVars, handler_ends>>

NextCallbacks ==
    \/ \E th \in CallbackThreads : HandlerEnds(th)
    \/ \E th \in CallbackThreads : CounterLoad(th)
    \/ \E th \in CallbackThreads : CounterStore(th)

\* Callback threads of the consumers on one RocketMQManager
SpecCallbacks == Init /\ [][NextCallbacks]_vars

\* C35: when no callback is in progress, messages_consumed and
\* messages_failed are the numbers of handler returns and handler raises, and
\* messages_sent the number of successful publishes: no increment is lost,
\* whatever the interleaving.
C35_NoIncrementLost ==
    (\A th \in CallbackThreads : callbacks[th].pc = "idle") =>
        /\ stats.messages_consumed = handler_ends.returned
        /\ stats.messages_failed = handler_ends.raised
        /\ stats.messages_sent = 0


\* ---------------------------------------------------------------- shutdown
\* shutdown(): consumer.shutdown() for every consumer, then
\* self.producer.shutdown()
ShutdownProducer ==
    /\ shutting_down = "running"
    /\ shutting_down' = "producer_shut_down"
    /\ UNCHANGED <<brokerVars, lockVars, workerVars, callbackVars, evictVars, expiryVars, poolVars, handlerVars,
                   signatureVars, raceVars, redisVars, threadVars, embeddingVars>>

\* shutdown(): self.executor.shutdown(wait=True) returns once every task
\* submitted has run to its end
ShutdownExecutor ==
    /\ shutting_down = "producer_shut_down"
    /\ pool = <<>>
    /\ shutting_down' = "done"
    /\ UNCHANGED <<brokerVars, lockVars, workerVars, callbackVars, evictVars, expiryVars, poolVars, handlerVars,
                   signatureVars, raceVars, redisVars, threadVars, embeddingVars>>

NextShutdown ==
    \/ RetryScheduled
    \/ PoolWorkerStart
    \/ PoolTick
    \/ SleepEnds
    \/ ShutdownProducer
    \/ ShutdownExecutor

\* The manager with retries pending when shutdown() is called
SpecShutdown == Init /\ [][NextShutdown]_vars

\* C36: no delayed_send calls send_message once the producer is shut down:
\* the sleep of every retry ends, and its publish is attempted, while the
\* producer is still running, or never.
C36_NoSendAfterProducerShutdown ==
    [][finished' # finished => shutting_down = "running"]_vars


\* -------------------------------------- SEGMENT handlers running at once
\* What thread th keeps of its handling when it changes one of its locals
Thread(th) == segment_threads[th]
AllIdle == \A th \in SegmentThreads : Thread(th).pc = "idle"

\* handle_sam_segment_message(message) begins on thread th, for the image the
\* message names
SegmentBegin(th) ==
    /\ Thread(th).pc = "idle"
    /\ segment_begun < MaxSegmentHandlings
    /\ \E image_path \in ThreadImages :
         segment_threads' = [segment_threads EXCEPT
                               ![th] = [NoSegment EXCEPT !.pc = "lookup",
                                                         !.image_path = image_path]]
    /\ segment_begun' = segment_begun + 1
    /\ UNCHANGED <<shared_cache, predictor_features, shared_embedding, segment_clock, last_evicted>>
    /\ UNCHANGED <<brokerVars, lockVars, embeddingVars, threadVars, redisVars, raceVars, signatureVars,
                   handlerVars, poolVars, expiryVars, evictVars, callbackVars, shutdownVars>>

\* _get_or_compute_embedding: if image_hash in self.embedding_cache
SegmentLookup(th) ==
    /\ Thread(th).pc = "lookup"
    /\ segment_threads' = [segment_threads EXCEPT
                              ![th].pc = IF Thread(th).image_path \in Hashes(shared_cache)
                                         THEN "hit" ELSE "set_image"]
    /\ UNCHANGED <<shared_cache, predictor_features, shared_embedding, segment_clock, segment_begun, last_evicted>>
    /\ UNCHANGED <<brokerVars, lockVars, embeddingVars, threadVars, redisVars, raceVars, signatureVars,
                   handlerVars, poolVars, expiryVars, evictVars, callbackVars, shutdownVars>>

\* _get_or_compute_embedding, cache hit: the entry is read, its embedding
\* becomes self.current_embedding and its last_accessed is stamped; an entry
\* deleted since the test raises KeyError, None is returned and the handler
\* raises
SegmentHit(th) ==
    /\ Thread(th).pc = "hit"
    /\ IF Thread(th).image_path \in Hashes(shared_cache)
       THEN LET cache_entry == Entry(shared_cache, Thread(th).image_path) IN
              /\ shared_embedding' = cache_entry.embedding
              /\ shared_cache' = (shared_cache \ {cache_entry}) \cup
                                   {[cache_entry EXCEPT !.last_accessed = segment_clock + 1]}
              /\ segment_clock' = segment_clock + 1
              /\ segment_threads' = [segment_threads EXCEPT ![th].pc = "return"]
       ELSE /\ segment_threads' = [segment_threads EXCEPT ![th].pc = "idle",
                                                           ![th].raised = TRUE]
            /\ UNCHANGED <<shared_embedding, shared_cache, segment_clock>>
    /\ UNCHANGED <<predictor_features, segment_begun, last_evicted>>
    /\ UNCHANGED <<brokerVars, lockVars, embeddingVars, threadVars, redisVars, raceVars, signatureVars,
                   handlerVars, poolVars, expiryVars, evictVars, callbackVars, shutdownVars>>

\* _get_or_compute_embedding, cache miss: self.sam_predictor.set_image(np_image)
SegmentSetImage(th) ==
    /\ Thread(th).pc = "set_image"
    /\ predictor_features' = Thread(th).image_path
    /\ segment_threads' = [segment_threads EXCEPT ![th].pc = "clone"]
    /\ UNCHANGED <<shared_cache, shared_embedding, segment_clock, segment_begun, last_evicted>>
    /\ UNCHANGED <<brokerVars, lockVars, embeddingVars, threadVars, redisVars, raceVars, signatureVars,
                   handlerVars, poolVars, expiryVars, evictVars, callbackVars, shutdownVars>>

\* embedding = self.sam_predictor.features.clone()
SegmentClone(th) ==
    /\ Thread(th).pc = "clone"
    /\ segment_threads' = [segment_threads EXCEPT ![th].pc = "evict",
                                                   ![th].embedding = predictor_features]
    /\ UNCHANGED <<shared_cache, predictor_features, shared_embedding, segment_clock, segment_begun, last_evicted>>
    /\ UNCHANGED <<brokerVars, lockVars, embeddingVars, threadVars, redisVars, raceVars, signatureVars,
                   handlerVars, poolVars, expiryVars, evictVars, callbackVars, shutdownVars>>

\* _evict_oldest_embedding: the test of the length and, with the cache full,
\* the key of the entry with the smallest last_accessed
SegmentEvictTest(th) ==
    /\ Thread(th).pc = "evict"
    /\ segment_threads' =
         IF Cardinality(shared_cache) >= handlers_max_cache_size
         THEN [segment_threads EXCEPT ![th].pc = "delete",
                                      ![th].oldest_key = OldestKey(shared_cache)]
         ELSE [segment_threads EXCEPT ![th].pc = "insert"]
    /\ UNCHANGED <<shared_cache, predictor_features, shared_embedding, segment_clock, segment_begun, last_evicted>>
    /\ UNCHANGED <<brokerVars, lockVars, embeddingVars, threadVars, redisVars, raceVars, signatureVars,
                   handlerVars, poolVars, expiryVars, evictVars, callbackVars, shutdownVars>>

\* _evict_oldest_embedding: del self.embedding_cache[oldest_key]; a key
\* deleted since the test raises KeyError, None is returned and the handler
\* raises
SegmentEvictDelete(th) ==
    /\ Thread(th).pc = "delete"
    /\ IF Thread(th).oldest_key \in Hashes(shared_cache)
       THEN /\ shared_cache' = shared_cache \ {Entry(shared_cache, Thread(th).oldest_key)}
            /\ last_evicted' = [key |-> Thread(th).oldest_key,
                                was_oldest |-> Thread(th).oldest_key = OldestKey(shared_cache)]
            /\ segment_threads' = [segment_threads EXCEPT ![th].pc = "insert"]
       ELSE /\ segment_threads' = [segment_threads EXCEPT ![th].pc = "idle",
                                                           ![th].raised = TRUE]
            /\ UNCHANGED <<shared_cache, last_evicted>>
    /\ UNCHANGED <<predictor_features, shared_embedding, segment_clock, segment_begun>>
    /\ UNCHANGED <<brokerVars, lockVars, embeddingVars, threadVars, redisVars, raceVars, signatureVars,
                   handlerVars, poolVars, expiryVars, evictVars, callbackVars, shutdownVars>>

\* self.embedding_cache[image_hash] = {...}; self.current_embedding = embedding
SegmentInsert(th) ==
    /\ Thread(th).pc = "insert"
    /\ shared_cache' = {entry \in shared_cache : entry.image_hash # Thread(th).image_path}
                          \cup {[image_hash |-> Thread(th).image_path,
                                 embedding |-> Thread(th).embedding,
                                 last_accessed |-> segment_clock + 1]}
    /\ segment_clock' = segment_clock + 1
    /\ shared_embedding' = Thread(th).embedding
    /\ segment_threads' = [segment_threads EXCEPT ![th].pc = "return"]
    /\ UNCHANGED <<predictor_features, segment_begun, last_evicted>>
    /\ UNCHANGED <<brokerVars, lockVars, embeddingVars, threadVars, redisVars, raceVars, signatureVars,
                   handlerVars, poolVars, expiryVars, evictVars, callbackVars, shutdownVars>>

\* return self.current_embedding, to handle_sam_segment_message
SegmentReturn(th) ==
    /\ Thread(th).pc = "return"
    /\ segment_threads' = [segment_threads EXCEPT ![th].pc = "set_features",
                                                   ![th].returned = shared_embedding]
    /\ UNCHANGED <<shared_cache, predictor_features, shared_embedding, segment_clock, segment_begun, last_evicted>>
    /\ UNCHANGED <<brokerVars, lockVars, embeddingVars, threadVars, redisVars, raceVars, signatureVars,
                   handlerVars, poolVars, expiryVars, evictVars, callbackVars, shutdownVars>>

\* _run_sam_segmentation: self.sam_predictor.features = embedding
SegmentSetFeatures(th) ==
    /\ Thread(th).pc = "set_features"
    /\ predictor_features' = Thread(th).returned
    /\ segment_threads' = [segment_threads EXCEPT ![th].pc = "predict"]
    /\ UNCHANGED <<shared_cache, shared_embedding, segment_clock, segment_begun, last_evicted>>
    /\ UNCHANGED <<brokerVars, lockVars, embeddingVars, threadVars, redisVars, raceVars, signatureVars,
                   handlerVars, poolVars, expiryVars, evictVars, callbackVars, shutdownVars>>

\* _run_sam_segmentation: self.sam_predictor.predict(...), on the features
\* the predictor holds now; the handler returns its result
SegmentPredict(th) ==
    /\ Thread(th).pc = "predict"
    /\ segment_threads' = [segment_threads EXCEPT ![th].pc = "idle",
                                                   ![th].predicted_with = predictor_features]
    /\ UNCHANGED <<shared_cache, predictor_features, shared_embedding, segment_clock, segment_begun, last_evicted>>
    /\ UNCHANGED <<brokerVars, lockVars, embeddingVars, threadVars, redisVars, raceVars, signatureVars,
                   handlerVars, poolVars, expiryVars, evictVars, callbackVars, shutdownVars>>

NextWorkers ==
    \/ \E th \in SegmentThreads : SegmentBegin(th)
    \/ \E th \in SegmentThreads : SegmentLookup(th)
    \/ \E th \in SegmentThreads : SegmentHit(th)
    \/ \E th \in SegmentThreads : SegmentSetImage(th)
    \/ \E th \in SegmentThreads : SegmentClone(th)
    \/ \E th \in SegmentThreads : SegmentEvictTest(th)
    \/ \E th \in SegmentThreads : SegmentEvictDelete(th)
    \/ \E th \in SegmentThreads : SegmentInsert(th)
    \/ \E th \in SegmentThreads : SegmentReturn(th)
    \/ \E th \in SegmentThreads : SegmentSetFeatures(th)
    \/ \E th \in SegmentThreads : SegmentPredict(th)

\* A worker that has handled up to max_cache_size images, with every other
\* part of the program as constructed
InitWorkers ==
    /\ BrokerInit /\ EmbeddingInit /\ ThreadInit /\ RedisInit /\ RaceInit
    /\ SignatureInit /\ HandlerInit /\ PoolInit /\ ExpiryInit /\ EvictInit
    /\ CallbackInit /\ ShutdownInit /\ WarmWorkerInit /\ LockInit
    /\ backend = "reliable"

\* SEGMENT handlers on the callback threads of one worker process
SpecWorkers == InitWorkers /\ [][NextWorkers]_vars

\* C37: every prediction a handler made was computed on the features of the
\* image its own message names.
C37_PredictsOnOwnEmbedding ==
    \A th \in SegmentThreads :
       Thread(th).predicted_with # NoImage
         => Thread(th).predicted_with = Thread(th).image_path

\* C38: with no handler running, the embedding cache holds at most
\* max_cache_size entries, and the entry last evicted was the one with the
\* smallest last_accessed when it was deleted.
C38_CacheWithinSizeOldestEvicted ==
    (AllIdle /\ segment_begun > 0)
      => /\ Cardinality(shared_cache) <= handlers_max_cache_size
         /\ last_evicted.was_oldest


\* ------------------------------------------------- page processing locks
\* set_page_processing_lock(user_id, filename, page_id) called by a caller
\* that wants to process the page; on True it starts processing it.
SetPageProcessingLock ==
    /\ lock_calls < MaxLockCalls
    /\ \E caller \in LockCallers, page_id \in LockPages, backend_raises \in BOOLEAN :
         LET r == set_page_processing_lock(page_locks, page_id, LockTtl, backend_raises) IN
           /\ page_locks' = r.store
           /\ processing' = IF r.returned
                            THEN [processing EXCEPT ![caller] = @ \cup {page_id}]
                            ELSE processing
           /\ lastLock' = [caller |-> caller, page_id |-> page_id,
                           returned |-> r.returned, raised |-> backend_raises]
    /\ lock_calls' = lock_calls + 1
    /\ UNCHANGED lock_now
    /\ UNCHANGED <<brokerVars, embeddingVars, threadVars, redisVars, raceVars, signatureVars,
                   handlerVars, poolVars, expiryVars, evictVars, callbackVars, shutdownVars,
                   workerVars>>

\* release_page_processing_lock(user_id, filename, page_id) called by any
\* caller, whether it processes the page or not; a caller that processes the
\* page is done with it.
ReleasePageProcessingLock ==
    /\ lock_calls < MaxLockCalls
    /\ \E caller \in LockCallers, page_id \in LockPages, backend_raises \in BOOLEAN :
         /\ page_locks' = release_page_processing_lock(page_locks, page_id, backend_raises)
         /\ processing' = [processing EXCEPT ![caller] = @ \ {page_id}]
    /\ lock_calls' = lock_calls + 1
    /\ UNCHANGED <<lock_now, lastLock>>
    /\ UNCHANGED <<brokerVars, embeddingVars, threadVars, redisVars, raceVars, signatureVars,
                   handlerVars, poolVars, expiryVars, evictVars, callbackVars, shutdownVars,
                   workerVars>>

\* Half the lock's time to live passes on the backend, which drops every
\* lock key whose time has run out; the callers go on processing.
LockTimePasses ==
    /\ lock_now < MaxLockTicks * (LockTtl \div 2)
    /\ lock_now' = lock_now + LockTtl \div 2
    /\ page_locks' = [page_id \in LockPages |->
                        IF page_locks[page_id] > LockTtl \div 2
                        THEN page_locks[page_id] - LockTtl \div 2 ELSE 0]
    /\ UNCHANGED <<processing, lock_calls, lastLock>>
    /\ UNCHANGED <<brokerVars, embeddingVars, threadVars, redisVars, raceVars, signatureVars,
                   handlerVars, poolVars, expiryVars, evictVars, callbackVars, shutdownVars,
                   workerVars>>

NextLocks ==
    \/ SetPageProcessingLock
    \/ ReleasePageProcessingLock
    \/ LockTimePasses

\* Callers of the page processing lock on one backend
SpecLocks == Init /\ [][NextLocks]_vars

\* C39: a page is processed by at most one caller at a time, between its
\* set_page_processing_lock that returned True and its release, also when the
\* key expires meanwhile or another caller releases it; and a
\* set_page_processing_lock whose backend call raised returned False.
C39_LockExcludesDuplicates ==
    /\ \A page_id \in LockPages :
          Cardinality({caller \in LockCallers : page_id \in processing[caller]}) <= 1
    /\ lastLock.raised => ~lastLock.returned


\* ------------------------------------------------- publish and parse back
\* C40: a send_message call by a caller that the broker accepts returns the
\* message id without raising, and the body it published is parsed by
\* _handle_message into a message equal to the one sent in every field.
C40_PublishedBodyParsesBack ==
    (lastSend.called /\ lastSend.by = "caller" /\ lastSend.broker_result = "ok")
      => /\ ~lastSend.raised
         /\ lastSend.returned = lastSend.message.message_id
         /\ Len(lastSend.published) = 1
         /\ ParseBody(lastSend.published[1].body).ok
         /\ ParseBody(lastSend.published[1].body).message = lastSend.message

====
